---------------------------- MODULE Spec2Model ----------------------------
(***************************************************************************)
(* Model of lukejameson/recipe-extractor: the ingredient normalisation    *)
(* engine of class RecipeDatabase (src/unnamed/part_001): parseQuantity,  *)
(* convertToMetric, parseIngredient, decimalToFraction, scaleIngredients, *)
(* scaleIngredientsToServings, and the recipe store they work on.         *)
(*                                                                         *)
(* Representation.                                                         *)
(*  - A JavaScript number is a pair <<n, d>>: for d > 0 the rational n/d   *)
(*    in lowest terms, <<0,0>> is NaN, <<1,0>> is Infinity and <<-1,0>>    *)
(*    is -Infinity.  null and undefined are the pairs Null and Undefined.  *)
(*    Arithmetic is exact: the binary rounding of IEEE doubles is not      *)
(*    modelled, the special values (NaN, the infinities, division by       *)
(*    zero) are.  Negative zero is not distinguished from zero.            *)
(*  - A JavaScript string is a sequence of one-character strings.  A       *)
(*    string-or-null result uses NullStr for null.                         *)
(***************************************************************************)
EXTENDS Integers, Sequences, FiniteSets, TLC

VARIABLES
    call,        \* SpecCalls: the last call of a pure method, with its result
    decimal,     \* SpecFrac: decimalToFraction's argument
    frac,        \* SpecFrac: decimalToFraction's locals h1, h2, k1, k2, b
    fpc,         \* SpecFrac: position in decimalToFraction
    fres,        \* SpecFrac: decimalToFraction's return value
    recipes,     \* Spec: rows of table recipes
    ingredients, \* Spec: rows of table ingredients
    instructions, \* Spec: rows of table instructions
    nextId,      \* Spec: the AUTOINCREMENT counter of table recipes
    result,      \* Spec: the last method call on the store, with its result
    sessions,    \* SpecServer: req.session.authenticated of every session
    response,    \* SpecServer: the last request, with the response to it
    files,       \* SpecFiles, SpecExtract: the files on disk
    dirs,        \* SpecExtract: the directories on disk
    clock,       \* SpecExtract: Date.now()
    jobs         \* SpecExtract: the extraction requests in flight

vars == <<call, decimal, frac, fpc, fres,
          recipes, ingredients, instructions, nextId, result,
          sessions, response, files, dirs, clock, jobs>>

---------------------------------------------------------------------------
(* JavaScript numbers *)

NaN == <<0, 0>>
Infinity == <<1, 0>>
NegInfinity == <<-1, 0>>
Null == <<0, -1>>
Undefined == <<0, -2>>

Abs(x) == IF x < 0 THEN -x ELSE x
Sign(x) == IF x < 0 THEN -1 ELSE IF x > 0 THEN 1 ELSE 0

RECURSIVE GCD(_, _)
GCD(x, y) == IF y = 0 THEN x ELSE GCD(y, x % y)

\* The number n/d (d any integer): division by zero gives NaN or an infinity.
Num(n, d) ==
    IF d = 0 THEN <<Sign(n), 0>>
    ELSE LET g == GCD(Abs(n), Abs(d))
             s == IF d < 0 THEN -1 ELSE 1
         IN  <<(s * n) \div g, (s * d) \div g>>

Whole(n) == <<n, 1>>
IsNull(x) == x[2] < 0
IsNaN(x) == x = NaN
IsFinite(x) == x[2] > 0
IsNumber(x) == x[2] >= 0
\* JavaScript truthiness of a number, null or undefined (the ! operator)
Truthy(x) == IsNumber(x) /\ x[1] # 0

Neg(x) == <<-x[1], x[2]>>
Mul(x, y) == Num(x[1] * y[1], x[2] * y[2])
Add(x, y) ==
    IF IsFinite(x) /\ IsFinite(y) THEN Num(x[1] * y[2] + y[1] * x[2], x[2] * y[2])
    ELSE IF IsNaN(x) \/ IsNaN(y) THEN NaN
    ELSE IF IsFinite(x) THEN y
    ELSE IF IsFinite(y) THEN x
    ELSE IF x = y THEN x ELSE NaN
Sub(x, y) == Add(x, Neg(y))
Recip(y) == IF IsNaN(y) THEN NaN ELSE Num(y[2], y[1])
Div(x, y) == Mul(x, Recip(y))
\* x < y, false when either is NaN
Lt(x, y) ==
    /\ ~IsNaN(x) /\ ~IsNaN(y)
    /\ IF IsFinite(x) /\ IsFinite(y) THEN x[1] * y[2] < y[1] * x[2]
       ELSE IF IsFinite(x) THEN y = Infinity
       ELSE IF IsFinite(y) THEN x = NegInfinity
       ELSE x = NegInfinity /\ y = Infinity
Le(x, y) == ~IsNaN(x) /\ ~IsNaN(y) /\ ~Lt(y, x)
AbsNum(x) == <<Abs(x[1]), x[2]>>
\* Math.floor
Floor(x) == IF IsFinite(x) THEN Whole(x[1] \div x[2]) ELSE x
\* Mutant of Round: Math.floor in the place of Math.round
RoundDown(x) == IF IsFinite(x) THEN Whole(x[1] \div x[2]) ELSE x
\* Math.round: the nearest integer, a half rounded up
Round(x) == IF IsFinite(x) THEN Whole((2 * x[1] + x[2]) \div (2 * x[2])) ELSE x
\* the % operator: the remainder has the sign of the dividend
Rem(x, y) ==
    IF ~IsFinite(x) \/ IsNaN(y) \/ y[1] = 0 THEN NaN
    ELSE IF ~IsFinite(y) THEN x
    ELSE LET q == Div(AbsNum(x), AbsNum(y))
             r == Sub(AbsNum(x), Mul(Floor(q), AbsNum(y)))
         IN  IF x[1] < 0 THEN Neg(r) ELSE r
IsInteger(x) == IsFinite(x) /\ x[2] = 1

---------------------------------------------------------------------------
(* JavaScript strings *)

NullStr == <<"null">>
Digit == {"0", "1", "2", "3", "4", "5", "6", "7", "8", "9"}
Lower == {"a", "b", "c", "d", "e", "f", "g", "h", "i", "j", "k", "l", "m",
          "n", "o", "p", "q", "r", "s", "t", "u", "v", "w", "x", "y", "z"}
Upper == {"A", "B", "C", "D", "E", "F", "G", "H", "I", "J", "K", "L", "M",
          "N", "O", "P", "Q", "R", "S", "T", "U", "V", "W", "X", "Y", "Z"}
Letter == Lower \cup Upper
\* \s of a regular expression, within the model's alphabet
Space == {" "}
\* \s of a regular expression in the texts the server reads, which have
\* line ends in them
WhiteSpace == {" ", "\t", "\n", "\r"}
\* \w of a regular expression
WordChar == Letter \cup Digit \cup {"_"}

DigitVal(c) ==
    CASE c = "0" -> 0 [] c = "1" -> 1 [] c = "2" -> 2 [] c = "3" -> 3
      [] c = "4" -> 4 [] c = "5" -> 5 [] c = "6" -> 6 [] c = "7" -> 7
      [] c = "8" -> 8 [] c = "9" -> 9
DigitChar(n) ==
    CASE n = 0 -> "0" [] n = 1 -> "1" [] n = 2 -> "2" [] n = 3 -> "3"
      [] n = 4 -> "4" [] n = 5 -> "5" [] n = 6 -> "6" [] n = 7 -> "7"
      [] n = 8 -> "8" [] n = 9 -> "9"

UpperOf == [c \in Lower |->
    CASE c = "a" -> "A" [] c = "b" -> "B" [] c = "c" -> "C" [] c = "d" -> "D"
      [] c = "e" -> "E" [] c = "f" -> "F" [] c = "g" -> "G" [] c = "h" -> "H"
      [] c = "i" -> "I" [] c = "j" -> "J" [] c = "k" -> "K" [] c = "l" -> "L"
      [] c = "m" -> "M" [] c = "n" -> "N" [] c = "o" -> "O" [] c = "p" -> "P"
      [] c = "q" -> "Q" [] c = "r" -> "R" [] c = "s" -> "S" [] c = "t" -> "T"
      [] c = "u" -> "U" [] c = "v" -> "V" [] c = "w" -> "W" [] c = "x" -> "X"
      [] c = "y" -> "Y" [] c = "z" -> "Z"]
LowerChar(c) == IF c \in Upper THEN CHOOSE l \in Lower : UpperOf[l] = c ELSE c
\* String.prototype.toLowerCase
toLowerCase(s) == [i \in 1..Len(s) |-> LowerChar(s[i])]

\* the number of consecutive characters of class C in s from position i on
RECURSIVE RunLen(_, _, _)
RunLen(s, i, C) ==
    IF i <= Len(s) /\ s[i] \in C THEN 1 + RunLen(s, i + 1, C) ELSE 0

\* s without its first n characters
Drop(s, n) == SubSeq(s, n + 1, Len(s))
Take(s, n) == SubSeq(s, 1, n)
\* String.prototype.includes, for a one-character needle
includes(s, c) == \E i \in 1..Len(s) : s[i] = c

\* String.prototype.trim
trim(s) ==
    LET lead == RunLen(s, 1, Space)
        t == Drop(s, lead)
        keep == CHOOSE n \in 0..Len(t) :
                    /\ n = 0 \/ t[n] \notin Space
                    /\ \A j \in (n + 1)..Len(t) : t[j] \in Space
    IN  Take(t, keep)

\* the number of consecutive characters outside class C in s from position i on
RECURSIVE RunLenNot(_, _, _)
RunLenNot(s, i, C) ==
    IF i <= Len(s) /\ s[i] \notin C THEN 1 + RunLenNot(s, i + 1, C) ELSE 0

\* String.prototype.split with a separator that is a run of characters of
\* class C (a regular expression [C]+): the pieces between the runs, the
\* empty pieces at either end included.
RECURSIVE SplitRuns(_, _)
SplitRuns(s, C) ==
    LET k == RunLenNot(s, 1, C)
    IN  IF k = Len(s) THEN <<s>>
        ELSE <<Take(s, k)>> \o SplitRuns(Drop(s, k + RunLen(s, k + 1, C)), C)

\* String.prototype.split with a one-character separator c
RECURSIVE SplitChar(_, _)
SplitChar(s, c) ==
    LET k == RunLenNot(s, 1, {c})
    IN  IF k = Len(s) THEN <<s>>
        ELSE <<Take(s, k)>> \o SplitChar(Drop(s, k + 1), c)

RECURSIVE Pow10(_)
Pow10(n) == IF n = 0 THEN 1 ELSE 10 * Pow10(n - 1)

\* the value of a string of decimal digits (0 for the empty string)
RECURSIVE IntOf(_)
IntOf(s) ==
    IF s = <<>> THEN 0 ELSE 10 * IntOf(Take(s, Len(s) - 1)) + DigitVal(s[Len(s)])

\* The longest prefix of s that is an unsigned decimal literal (digits, with
\* an optional "." and digits, or "." and digits): its length (0 when there
\* is none) and its value.  The model's strings hold no exponent, hex or
\* "Infinity" literal.
DecimalPrefix(s) ==
    LET m == RunLen(s, 1, Digit)
        hasDot == m + 1 <= Len(s) /\ s[m + 1] = "."
        f == IF hasDot THEN RunLen(s, m + 2, Digit) ELSE 0
    IN  IF m = 0 /\ f = 0 THEN [len |-> 0, val |-> NaN]
        ELSE IF hasDot
             THEN [len |-> m + 1 + f,
                   val |-> Num(IntOf(Take(s, m)) * Pow10(f)
                               + IntOf(SubSeq(s, m + 2, m + 1 + f)), Pow10(f))]
             ELSE [len |-> m, val |-> Whole(IntOf(Take(s, m)))]

\* a literal with an optional sign in front
SignedPrefix(s) ==
    IF s # <<>> /\ s[1] = "-"
    THEN LET p == DecimalPrefix(Drop(s, 1))
         IN  [len |-> IF p.len = 0 THEN 0 ELSE p.len + 1, val |-> Neg(p.val)]
    ELSE DecimalPrefix(s)

\* the global parseFloat: leading white space skipped, then the longest
\* numeric prefix; NaN when there is none
parseFloat(s) == SignedPrefix(Drop(s, RunLen(s, 1, Space))).val

\* Number(string): the whole trimmed string must be a numeric literal; the
\* empty string is 0
ToNumber(s) ==
    LET t == trim(s)
        p == SignedPrefix(t)
    IN  IF t = <<>> THEN Whole(0)
        ELSE IF p.len = Len(t) THEN p.val ELSE NaN

---------------------------------------------------------------------------
(* RecipeDatabase.parseQuantity, src/unnamed/part_001:293-314 *)

UndefinedStr == <<"undefined">>

\* one iteration of the loop over parts: what the part adds to total
PartValue(part) ==
    IF includes(part, "/")
    THEN LET p == SplitChar(part, "/")
         IN  Div(ToNumber(p[1]), ToNumber(p[2]))
    ELSE LET v == ToNumber(part) IN IF Truthy(v) THEN v ELSE Whole(0)

RECURSIVE SumParts(_, _)
SumParts(parts, i) ==
    IF i > Len(parts) THEN Whole(0)
    ELSE Add(PartValue(parts[i]), SumParts(parts, i + 1))

parseQuantity(quantityStr) ==
    IF quantityStr = UndefinedStr \/ quantityStr = <<>> THEN Null
    ELSE IF includes(quantityStr, "/")
         THEN SumParts(SplitRuns(quantityStr, Space \cup {"-"}), 1)
         ELSE LET v == parseFloat(quantityStr)
              IN  IF Truthy(v) THEN v ELSE Null

---------------------------------------------------------------------------
(* Numbers to strings *)

\* the decimal digits of a natural number
RECURSIVE NatToString(_)
NatToString(n) ==
    IF n < 10 THEN <<DigitChar(n)>>
    ELSE Append(NatToString(n \div 10), DigitChar(n % 10))

\* the fraction digits a non-integer prints when its decimal expansion does
\* not end: JavaScript prints the shortest digits that read back as the same
\* double (16 or 17 significant digits); the model prints this many
MaxFractionDigits == 16

\* the decimal expansion of r/d (0 <= r < d), at most n digits
RECURSIVE FractionDigits(_, _, _)
FractionDigits(r, d, n) ==
    IF r = 0 \/ n = 0 THEN <<>>
    ELSE <<DigitChar((10 * r) \div d)>> \o FractionDigits((10 * r) % d, d, n - 1)

\* Number.prototype.toString, also the conversion a template literal makes
NumToString(x) ==
    IF IsNaN(x) THEN <<"N", "a", "N">>
    ELSE IF ~IsFinite(x)
         THEN (IF x = NegInfinity THEN <<"-">> ELSE <<>>)
                \o <<"I", "n", "f", "i", "n", "i", "t", "y">>
    ELSE LET m == Abs(x[1])
             body == NatToString(m \div x[2])
                       \o (IF m % x[2] = 0 THEN <<>>
                           ELSE <<".">> \o FractionDigits(m % x[2], x[2], MaxFractionDigits))
         IN  (IF x[1] < 0 THEN <<"-">> ELSE <<>>) \o body

\* Number.prototype.toFixed(2)
toFixed2(x) ==
    IF ~IsFinite(x) THEN NumToString(x)
    ELSE LET m == Abs(x[1])
             c == (2 * 100 * m + x[2]) \div (2 * x[2])   \* hundredths, a half up
         IN  (IF x[1] < 0 /\ c > 0 THEN <<"-">> ELSE <<>>)
               \o NatToString(c \div 100)
               \o <<".", DigitChar((c % 100) \div 10), DigitChar(c % 10)>>

---------------------------------------------------------------------------
(* RecipeDatabase.decimalToFraction, src/unnamed/part_001:509-541 *)

\* const tolerance = 1.0e-6, as its inverse
ToleranceInv == 1000000
\* if (k1 <= 8)
MaxDenominator == 8

\* The loop's locals before the first iteration
FracStart(dec) ==
    [h1 |-> Whole(1), h2 |-> Whole(0), k1 |-> Whole(0), k2 |-> Whole(1), b |-> dec]

\* One execution of the body of the do-while loop
FracBody(st) ==
    LET a == Floor(st.b)
    IN  [h1 |-> Add(Mul(a, st.h1), st.h2),
         h2 |-> st.h1,
         k1 |-> Add(Mul(a, st.k1), st.k2),
         k2 |-> st.k1,
         b  |-> Div(Whole(1), Sub(st.b, a))]

\* x > y * tolerance; a comparison with NaN is false.  For finite numbers
\* x = e/f and y = n/g this is e*g*ToleranceInv > n*f, computed as
\* e*g > floor(n*f / ToleranceInv) to stay within 32-bit integers.
GtTolerance(x, y) ==
    IF IsNaN(x) \/ IsNaN(y) THEN FALSE
    ELSE IF IsFinite(x) /\ IsFinite(y)
         THEN x[1] * y[2] > (y[1] * x[2]) \div ToleranceInv
         ELSE Lt(Mul(y, <<1, ToleranceInv>>), x)

\* Mutant of FracContinue: the test written as !(error <= decimal * tolerance),
\* which is true when the error is NaN
FracContinueNotLe(dec, st) ==
    LET err == AbsNum(Sub(dec, Div(st.h1, st.k1)))
    IN  IsNaN(err) \/ IsNaN(dec) \/ GtTolerance(err, dec)

\* Mutant of FracContinue: Math.abs left out
FracContinueNoAbs(dec, st) ==
    GtTolerance(Sub(dec, Div(st.h1, st.k1)), dec)

\* The loop's condition: Math.abs(decimal - h1 / k1) > decimal * tolerance
FracContinue(dec, st) ==
    GtTolerance(AbsNum(Sub(dec, Div(st.h1, st.k1))), dec)

RECURSIVE FracLoop(_, _)
FracLoop(dec, st) ==
    LET nx == FracBody(st)
    IN  IF FracContinue(dec, nx) THEN FracLoop(dec, nx) ELSE nx

\* The code after the loop: "whole remainder/k1", "remainder/k1" or null
FracFormat(st) ==
    IF Le(st.k1, Whole(MaxDenominator))
    THEN LET whole == Floor(Div(st.h1, st.k1))
             remainder == Rem(st.h1, st.k1)
         IN  IF Lt(Whole(0), whole) /\ Lt(Whole(0), remainder)
             THEN NumToString(whole) \o <<" ">> \o NumToString(remainder)
                    \o <<"/">> \o NumToString(st.k1)
             ELSE IF Lt(Whole(0), remainder)
             THEN NumToString(remainder) \o <<"/">> \o NumToString(st.k1)
             ELSE NullStr
    ELSE NullStr

decimalToFraction(dec) == FracFormat(FracLoop(dec, FracStart(dec)))

---------------------------------------------------------------------------
(* RecipeDatabase.conversionTable, src/unnamed/part_001:119-156 *)

\* conversionTable.volume: unit -> ml
VolumeTable ==
    (<<"c", "u", "p">> :> 240
      @@ <<"c", "u", "p", "s">> :> 240
      @@ <<"p", "i", "n", "t">> :> 473
      @@ <<"p", "i", "n", "t", "s">> :> 473
      @@ <<"q", "u", "a", "r", "t">> :> 946
      @@ <<"q", "u", "a", "r", "t", "s">> :> 946
      @@ <<"g", "a", "l", "l", "o", "n">> :> 3785
      @@ <<"g", "a", "l", "l", "o", "n", "s">> :> 3785
      @@ <<"t", "a", "b", "l", "e", "s", "p", "o", "o", "n">> :> 15
      @@ <<"t", "a", "b", "l", "e", "s", "p", "o", "o", "n", "s">> :> 15
      @@ <<"t", "b", "s", "p">> :> 15
      @@ <<"t", "e", "a", "s", "p", "o", "o", "n">> :> 5
      @@ <<"t", "e", "a", "s", "p", "o", "o", "n", "s">> :> 5
      @@ <<"t", "s", "p">> :> 5
      @@ <<"f", "l", "u", "i", "d", " ", "o", "u", "n", "c", "e">> :> 30
      @@ <<"f", "l", "u", "i", "d", " ", "o", "u", "n", "c", "e", "s">> :> 30
      @@ <<"f", "l", " ", "o", "z">> :> 30
      @@ <<"o", "z">> :> 30)

\* conversionTable.weight: unit -> g
WeightTable ==
    (<<"p", "o", "u", "n", "d">> :> 454
      @@ <<"p", "o", "u", "n", "d", "s">> :> 454
      @@ <<"l", "b">> :> 454
      @@ <<"l", "b", "s">> :> 454
      @@ <<"o", "u", "n", "c", "e">> :> 28
      @@ <<"o", "u", "n", "c", "e", "s">> :> 28
      @@ <<"o", "z">> :> 28)

\* Property names every object literal inherits from Object.prototype: a
\* look-up of one of them in a table finds a function, which is truthy and
\* is NaN as a factor.  (The names made of letters only.)
InheritedKeys ==
    {<<"c", "o", "n", "s", "t", "r", "u", "c", "t", "o", "r">>,
     <<"t", "o", "S", "t", "r", "i", "n", "g">>,
     <<"v", "a", "l", "u", "e", "O", "f">>,
     <<"h", "a", "s", "O", "w", "n", "P", "r", "o", "p", "e", "r", "t", "y">>,
     <<"i", "s", "P", "r", "o", "t", "o", "t", "y", "p", "e", "O", "f">>,
     <<"p", "r", "o", "p", "e", "r", "t", "y", "I", "s", "E", "n", "u", "m", "e", "r", "a", "b", "l", "e">>,
     <<"t", "o", "L", "o", "c", "a", "l", "e", "S", "t", "r", "i", "n", "g">>}

\* table[key]: whether the value found is truthy, and the value as a factor
LookUp(table, key) ==
    IF key \in DOMAIN table THEN [found |-> TRUE, factor |-> Whole(table[key])]
    ELSE IF key \in InheritedKeys THEN [found |-> TRUE, factor |-> NaN]
    ELSE [found |-> FALSE, factor |-> Undefined]

---------------------------------------------------------------------------
(* RecipeDatabase.convertToMetric, src/unnamed/part_001:159-222 *)

\* the words of the regular expression that recognises a liquid
LiquidWords ==
    {<<"w", "a", "t", "e", "r">>,
     <<"m", "i", "l", "k">>,
     <<"o", "i", "l">>,
     <<"j", "u", "i", "c", "e">>,
     <<"b", "r", "o", "t", "h">>,
     <<"s", "t", "o", "c", "k">>,
     <<"w", "i", "n", "e">>,
     <<"v", "i", "n", "e", "g", "a", "r">>,
     <<"c", "r", "e", "a", "m">>,
     <<"b", "u", "t", "t", "e", "r">>}

\* whether w occurs in s at position i
OccursAt(s, w, i) ==
    /\ i + Len(w) - 1 <= Len(s)
    /\ \A j \in 1..Len(w) : s[i + j - 1] = w[j]

\* String.prototype.includes
includesStr(s, w) == \E i \in 1..(Len(s) - Len(w) + 1) : OccursAt(s, w, i)

\* /\b(water|milk|...|butter)\b/i.test(ingredient): a liquid word between
\* two word boundaries, in any letter case
isLiquid(ingredient) ==
    LET s == toLowerCase(ingredient)
    IN  \E w \in LiquidWords : \E i \in 1..Len(s) :
            /\ OccursAt(s, w, i)
            /\ i = 1 \/ s[i - 1] \notin WordChar
            /\ i + Len(w) > Len(s) \/ s[i + Len(w)] \notin WordChar

\* if (amount >= 1000) { Math.round((amount / 1000) * 10) / 10 in the large
\* unit } else { Math.round(amount) in the small unit }
MetricResult(quantity, unit, amount, small, large) ==
    IF Le(Whole(1000), amount)
    THEN [quantity |-> Div(Round(Mul(Div(amount, Whole(1000)), Whole(10))), Whole(10)),
          unit |-> large,
          originalQuantity |-> quantity, originalUnit |-> unit, converted |-> TRUE]
    ELSE [quantity |-> Round(amount),
          unit |-> small,
          originalQuantity |-> quantity, originalUnit |-> unit, converted |-> TRUE]

\* unit is a string (possibly empty); quantity a number or null
convertToMetric(quantity, unit, ingredient) ==
    IF ~Truthy(quantity) \/ unit = <<>>
    THEN [quantity |-> quantity, unit |-> unit, converted |-> FALSE]
    ELSE LET unitLower == toLowerCase(unit)
             vol == LookUp(VolumeTable, unitLower)
             wgt == LookUp(WeightTable, unitLower)
         IN  IF vol.found
             THEN MetricResult(quantity, unit, Mul(quantity, vol.factor),
                               <<"m", "l">>, <<"L">>)
             ELSE IF wgt.found
                     /\ (~includesStr(unitLower, <<"o", "z">>) \/ ~isLiquid(ingredient))
             THEN MetricResult(quantity, unit, Mul(quantity, wgt.factor),
                               <<"g">>, <<"k", "g">>)
             ELSE [quantity |-> quantity, unit |-> unit, converted |-> FALSE]

---------------------------------------------------------------------------
(* RecipeDatabase.formatQuantityForDisplay, src/unnamed/part_001:285-291 *)

formatQuantityForDisplay(quantity) ==
    IF ~Truthy(quantity) THEN <<>>
    ELSE LET fraction == decimalToFraction(quantity)
         IN  IF fraction # NullStr THEN fraction ELSE NumToString(quantity)

---------------------------------------------------------------------------
(* RecipeDatabase.parseIngredient, src/unnamed/part_001:237-282 *)

\* [\d\/\.\s-]
QuantityChar == Digit \cup {"/", ".", "-"} \cup Space
\* [a-zA-Z\s]
UnitChar == Letter \cup Space
\* a line terminator, which "." does not match
LineTerminator == {"\n", "\r"}

Min(x, y) == IF x < y THEN x ELSE y

\* ingredientLine.match(/^([\d\/\.\s-]+)?\s*([a-zA-Z\s]+)?\s*(.+)$/).
\* The four quantified parts in front of (.+) are greedy and each may match
\* nothing, and (.+)$ matches any non-empty rest without a line terminator;
\* so backtracking ends at the first split, in the order longest quantity
\* run, longest white space, longest unit run, longest white space, that
\* leaves at least one character for (.+): each part takes its longest run,
\* capped so that one character is left.  A group that takes no character
\* did not take part in the match and is undefined.
MatchIngredient(line) ==
    LET n == Len(line)
        q == Min(RunLen(line, 1, QuantityChar), n - 1)
        s1 == Min(RunLen(line, q + 1, Space), n - 1 - q)
        u == Min(RunLen(line, q + s1 + 1, UnitChar), n - 1 - q - s1)
        s2 == Min(RunLen(line, q + s1 + u + 1, Space), n - 1 - q - s1 - u)
    IN  IF n = 0 \/ \E i \in 1..n : line[i] \in LineTerminator
        THEN [matched |-> FALSE]
        ELSE [matched |-> TRUE,
              quantity |-> IF q = 0 THEN UndefinedStr ELSE Take(line, q),
              unit |-> IF u = 0 THEN UndefinedStr
                       ELSE SubSeq(line, q + s1 + 1, q + s1 + u),
              rest |-> Drop(line, q + s1 + u + s2)]

\* Mutant of ParsedIngredient: display_text put together from the parts of
\* the line also when the line is not converted
ParsedIngredientRebuilt(ingredientLine, parsedQuantity, cleanUnit, ingredientName, converted) ==
    [quantity |-> converted.quantity,
     unit |-> converted.unit,
     ingredient_name |-> ingredientName,
     original_text |-> ingredientLine,
     original_quantity |-> parsedQuantity,
     original_unit |-> cleanUnit,
     converted |-> converted.converted,
     display_text |->
         formatQuantityForDisplay(converted.quantity) \o <<" ">> \o converted.unit
           \o <<" ">> \o ingredientName]

\* the object parseIngredient returns for a line the expression matches,
\* converted being this.convertToMetric(parsedQuantity, cleanUnit,
\* ingredientName)
ParsedIngredient(ingredientLine, parsedQuantity, cleanUnit, ingredientName, converted) ==
    [quantity |-> converted.quantity,
     unit |-> converted.unit,
     ingredient_name |-> ingredientName,
     original_text |-> ingredientLine,
     original_quantity |->
         IF converted.converted /\ Truthy(converted.originalQuantity)
         THEN converted.originalQuantity ELSE parsedQuantity,
     original_unit |->
         IF converted.converted /\ converted.originalUnit # <<>>
         THEN converted.originalUnit ELSE cleanUnit,
     converted |-> converted.converted,
     display_text |->
         IF converted.converted
         THEN formatQuantityForDisplay(converted.quantity)
                \o <<" ">> \o converted.unit
                \o <<" ">> \o ingredientName \o <<" ", "(">>
                \o formatQuantityForDisplay(converted.originalQuantity)
                \o <<" ">> \o converted.originalUnit \o <<")">>
         ELSE ingredientLine]

parseIngredient(ingredientLine) ==
    LET match == MatchIngredient(ingredientLine)
        parsedQuantity == parseQuantity(match.quantity)
        cleanUnit == IF match.unit # UndefinedStr THEN trim(match.unit) ELSE <<>>
        ingredientName == IF match.rest # <<>> THEN match.rest ELSE ingredientLine
    IN  IF match.matched
        THEN ParsedIngredient(ingredientLine, parsedQuantity, cleanUnit,
                              ingredientName,
                              convertToMetric(parsedQuantity, cleanUnit,
                                              ingredientName))
        ELSE [quantity |-> Null,
              unit |-> <<>>,
              ingredient_name |-> ingredientLine,
              original_text |-> ingredientLine,
              original_quantity |-> Null,
              original_unit |-> <<>>,
              converted |-> FALSE,
              display_text |-> ingredientLine]

---------------------------------------------------------------------------
(* Inputs of the pure methods *)

\* the longest quantity run enumerated character by character
MaxRunLen == 3
\* the characters a quantity run is made of: [\d\/\.\s-]
RunAlphabet == {"0", "1", "2", "/", ".", "-", " "}
RECURSIVE StringsUpTo(_, _)
StringsUpTo(A, n) ==
    IF n = 0 THEN {<<>>}
    ELSE LET shorter == StringsUpTo(A, n - 1)
         IN  shorter \cup {Append(s, c) : s \in shorter, c \in A}
QuantityRuns ==
    StringsUpTo(RunAlphabet, MaxRunLen)
\* longer quantity runs
SampleRuns ==
    {<<"1", " ", "1", "/", "2">>,
     <<"1", "-", "1", "/", "2">>,
     <<"2", " ", "1", "/", "4">>,
     <<"1", "0", ".", "2", "5">>,
     <<"1", " ", "1", ".", "5">>}
      \cup {UndefinedStr,
            <<"1", " ", "1", "/", "2">>, <<"1", "-", "1", "/", "2">>,
            <<"1", ".", "5">>, <<"1", " ", "1", "/", "2", " ">>,
            <<"2", " ", "1", "/", "0">>, <<"1", "0", " ", "2", ".", "5">>}

\* arguments of convertToMetric
SampleQuantities ==
    {Null, NaN, Whole(0), Whole(1), Whole(2), <<3, 2>>, <<1, 3>>, Whole(5),
     Whole(40), <<17, 4>>, <<-3, 2>>, Infinity, <<1, 16>>}
SampleUnits ==
    {<<>>,
     <<"o", "z">>,
     <<"O", "Z">>,
     <<"o", "u", "n", "c", "e">>,
     <<"o", "u", "n", "c", "e", "s">>,
     <<"O", "u", "n", "c", "e", "s">>,
     <<"f", "l", " ", "o", "z">>,
     <<"c", "u", "p", "s">>,
     <<"C", "u", "p">>,
     <<"t", "b", "s", "p">>,
     <<"t", "s", "p">>,
     <<"l", "b">>,
     <<"p", "o", "u", "n", "d", "s">>,
     <<"g", "a", "l", "l", "o", "n">>,
     <<"c", "l", "o", "v", "e", "s">>,
     <<"c", "o", "n", "s", "t", "r", "u", "c", "t", "o", "r">>}
SampleNames ==
    {<<"f", "l", "o", "u", "r">>,
     <<"o", "l", "i", "v", "e", " ", "o", "i", "l">>,
     <<"W", "h", "o", "l", "e", " ", "M", "I", "L", "K">>,
     <<"b", "u", "t", "t", "e", "r", "m", "i", "l", "k">>,
     <<"c", "r", "e", "a", "m", " ", "c", "h", "e", "e", "s", "e">>,
     <<"o", "i", "l", "y", " ", "f", "i", "s", "h">>,
     <<"c", "h", "o", "p", "p", "e", "d", " ", "o", "n", "i", "o", "n">>}

\* ingredient lines, put together from a quantity run, a unit word and a name
LineQuantities ==
    {<<>>,
     <<"1", " ", "1", "/", "2">>,
     <<"2">>,
     <<"0">>,
     <<"1", "/", "2">>,
     <<"0", "/", "2">>,
     <<"1", "-", "1", "/", "2">>,
     <<"2", ".", "5">>,
     <<"/">>,
     <<"1", "0">>}
LineUnits ==
    {<<>>,
     <<"c", "u", "p", "s">>,
     <<"o", "z">>,
     <<"t", "b", "s", "p">>,
     <<"c", "l", "o", "v", "e", "s">>,
     <<"l", "b">>}
LineNames ==
    {<<>>,
     <<"c", "h", "o", "p", "p", "e", "d", " ", "o", "n", "i", "o", "n">>,
     <<"(", "p", "a", "c", "k", "e", "d", ")", " ", "b", "r", "o", "w", "n", " ", "s", "u", "g", "a", "r">>,
     <<"o", "l", "i", "v", "e", " ", "o", "i", "l">>,
     <<"f", "l", "o", "u", "r", ",", " ", "s", "i", "f", "t", "e", "d">>,
     <<"2", "%", " ", "m", "i", "l", "k">>}
\* the parts with one space between the parts that are not empty
JoinWords(x, y) == IF x = <<>> THEN y ELSE IF y = <<>> THEN x ELSE x \o <<" ">> \o y
LineOf(quantity, unit, name) == JoinWords(quantity, JoinWords(unit, name))
LineParts == LineQuantities \X LineUnits \X LineNames
OtherLines ==
    {<<"s", "a", "l", "t", " ", "t", "o", " ", "t", "a", "s", "t", "e">>,
     <<" ">>,
     <<"a">>,
     <<"2", " ", "e", "g", "g", "s">>,
     <<"3", " ", "l", "a", "r", "g", "e", " ", "e", "g", "g", "s">>,
     <<"1", " ", "c", "u", "p">>,
     <<"1", "/", "1", "6", " ", "t", "s", "p", " ", "(", "x", ")">>,
     <<"2", " ", "c", "o", "n", "s", "t", "r", "u", "c", "t", "o", "r", " ", "(", "x", ")">>,
     <<"5", " ", "g", "a", "l", "l", "o", "n", "s", " ", "(", "x", ")">>}

---------------------------------------------------------------------------
(* The markdown file of a recipe: formatToObsidian of the extractor,        *)
(* src/extract-recipe-advanced.js:388-426 (the same text as                 *)
(* src/unnamed/part_000:252-290), and the server reading it back,           *)
(* src/server.js:297-349 and 946-1010                                       *)


\* String.prototype.startsWith
startsWith(s, w) == OccursAt(s, w, 1)

\* String.prototype.endsWith
endsWith(s, w) == Len(w) <= Len(s) /\ OccursAt(s, w, Len(s) - Len(w) + 1)

\* a value with || applied to it: a string that is undefined, null or empty
\* gives way to the alternative
StrOr(s, alternative) ==
    IF s \in {UndefinedStr, NullStr, <<>>} THEN alternative ELSE s

\* array.map(f).filter(Boolean) of strings: the empty results left out
RECURSIVE NonEmpty(_)
NonEmpty(list) ==
    IF list = <<>> THEN <<>>
    ELSE IF Head(list) = <<>> THEN NonEmpty(Tail(list))
    ELSE <<Head(list)>> \o NonEmpty(Tail(list))

\* Array.prototype.join
RECURSIVE Join(_, _)
Join(list, sep) ==
    IF list = <<>> THEN <<>>
    ELSE IF Len(list) = 1 THEN list[1]
    ELSE list[1] \o sep \o Join(Tail(list), sep)

\* the first position from i on at which w occurs in s, 0 when there is none
IndexOfFrom(s, w, i) ==
    LET hits == {k \in i..(Len(s) - Len(w) + 1) : OccursAt(s, w, k)}
    IN  IF hits = {} THEN 0 ELSE CHOOSE k \in hits : \A j \in hits : k <= j

\* the unit words of the two patterns of extractIngredientNames
MeasureWords ==
    {<<"c", "u", "p">>, <<"c", "u", "p", "s">>, <<"t", "a", "b", "l", "e", "s", "p", "o", "o", "n">>, <<"t", "a", "b", "l", "e", "s", "p", "o", "o", "n", "s">>, <<"t", "b", "s", "p">>, <<"t", "b", "s">>, <<"t", "e", "a", "s", "p", "o", "o", "n">>,
     <<"t", "e", "a", "s", "p", "o", "o", "n", "s">>, <<"t", "s", "p">>, <<"p", "o", "u", "n", "d">>, <<"p", "o", "u", "n", "d", "s">>, <<"l", "b">>, <<"l", "b", "s">>, <<"o", "u", "n", "c", "e">>, <<"o", "u", "n", "c", "e", "s">>,
     <<"o", "z">>, <<"g", "r", "a", "m">>, <<"g", "r", "a", "m", "s">>, <<"g">>, <<"k", "i", "l", "o", "g", "r", "a", "m">>, <<"k", "i", "l", "o", "g", "r", "a", "m", "s">>, <<"k", "g">>, <<"l", "i", "t", "e", "r">>,
     <<"l", "i", "t", "e", "r", "s">>, <<"l">>, <<"m", "i", "l", "l", "i", "l", "i", "t", "e", "r">>, <<"m", "i", "l", "l", "i", "l", "i", "t", "e", "r", "s">>, <<"m", "l">>, <<"p", "i", "n", "t">>, <<"p", "i", "n", "t", "s">>, <<"p", "t">>,
     <<"q", "u", "a", "r", "t">>, <<"q", "u", "a", "r", "t", "s">>, <<"q", "t">>, <<"g", "a", "l", "l", "o", "n">>, <<"g", "a", "l", "l", "o", "n", "s">>, <<"g", "a", "l">>, <<"s", "t", "i", "c", "k">>, <<"s", "t", "i", "c", "k", "s">>}
CountWords ==
    {<<"p", "i", "e", "c", "e">>, <<"p", "i", "e", "c", "e", "s">>, <<"s", "l", "i", "c", "e">>, <<"s", "l", "i", "c", "e", "s">>, <<"c", "l", "o", "v", "e">>, <<"c", "l", "o", "v", "e", "s">>, <<"b", "u", "n", "c", "h">>,
     <<"b", "u", "n", "c", "h", "e", "s">>, <<"p", "a", "c", "k", "a", "g", "e">>, <<"p", "a", "c", "k", "a", "g", "e", "s">>, <<"p", "k", "g">>, <<"c", "a", "n">>, <<"c", "a", "n", "s">>, <<"j", "a", "r">>, <<"j", "a", "r", "s">>,
     <<"b", "o", "t", "t", "l", "e">>, <<"b", "o", "t", "t", "l", "e", "s">>, <<"b", "a", "g">>, <<"b", "a", "g", "s">>, <<"b", "o", "x">>, <<"b", "o", "x", "e", "s">>, <<"c", "o", "n", "t", "a", "i", "n", "e", "r">>,
     <<"c", "o", "n", "t", "a", "i", "n", "e", "r", "s">>, <<"d", "a", "s", "h">>, <<"d", "a", "s", "h", "e", "s">>, <<"p", "i", "n", "c", "h">>, <<"p", "i", "n", "c", "h", "e", "s">>, <<"h", "a", "n", "d", "f", "u", "l">>,
     <<"h", "a", "n", "d", "f", "u", "l", "s">>, <<"s", "p", "r", "i", "g">>, <<"s", "p", "r", "i", "g", "s">>}

\* s.replace(/^(w1|w2|...)\s+/i, ''): a leading word of the set, in any letter
\* case, and the white space after it removed; without white space after the
\* word nothing is removed
StripLeadingWord(s, words) ==
    LET found == {w \in words : /\ OccursAt(toLowerCase(s), w, 1)
                                /\ RunLen(s, Len(w) + 1, WhiteSpace) > 0}
    IN  IF found = {} THEN s
        ELSE LET w == CHOOSE x \in found : TRUE
             IN  Drop(s, Len(w) + RunLen(s, Len(w) + 1, WhiteSpace))

\* s.replace(/\([^)]*\)/g, ''): every "(" with the text up to the next ")"
\* removed
RECURSIVE StripParentheses(_)
StripParentheses(s) ==
    LET open == IndexOfFrom(s, <<"(">>, 1)
        close == IF open = 0 THEN 0 ELSE IndexOfFrom(s, <<")">>, open + 1)
    IN  IF close = 0 THEN s
        ELSE Take(s, open - 1) \o StripParentheses(Drop(s, close))

\* s.replace(/,.*$/, ''): the text from the first comma that has no line end
\* after it
RECURSIVE StripAfterComma(_, _)
StripAfterComma(s, i) ==
    LET comma == IndexOfFrom(s, <<",">>, i)
    IN  IF comma = 0 THEN s
        ELSE IF comma + RunLenNot(s, comma + 1, LineTerminator) = Len(s)
             THEN Take(s, comma - 1)
        ELSE StripAfterComma(s, comma + 1)

\* part.charAt(0).toUpperCase() + part.slice(1).toLowerCase()
Capitalize(part) ==
    [i \in 1..Len(part) |->
        IF i = 1 THEN (IF part[1] \in Lower THEN UpperOf[part[1]] ELSE part[1])
        ELSE LowerChar(part[i])]

\* the callback of cleaned.split(/\s+/).map
CapitalizeWord(word) ==
    IF includes(word, "-")
    THEN LET parts == SplitChar(word, "-")
         IN  Join([k \in DOMAIN parts |-> Capitalize(parts[k])], <<"-">>)
    ELSE Capitalize(word)

\* the callback of ingredients.map in extractIngredientNames
IngredientName(ing) ==
    LET start == Drop(ing, RunLen(ing, 1, Digit \cup WhiteSpace \cup {"/", "-", "."}))
        cleaned == trim(StripAfterComma(
                     StripLeadingWord(
                       StripParentheses(
                         StripLeadingWord(StripLeadingWord(start, MeasureWords),
                                          CountWords)),
                       {<<"o", "f">>}), 1))
        words == SplitRuns(cleaned, WhiteSpace)
    IN  Join([k \in DOMAIN words |-> CapitalizeWord(words[k])], <<" ">>)

extractIngredientNames(list) ==
    NonEmpty([k \in DOMAIN list |-> IngredientName(list[k])])

\* new Date().toISOString().split('T')[0] on the day of the extraction
Today == <<"2", "0", "2", "5", "-", "0", "1", "-", "3", "1">>

\* formatToObsidian(recipeData, sourceUrl)
formatToObsidian(recipeData, sourceUrl) ==
    LET names == extractIngredientNames(recipeData.ingredients)
        frontmatter ==
            << <<"-", "-", "-">>,
               <<"t", "i", "t", "l", "e", ":", " ", "'">> \o StrOr(recipeData.title, <<"U", "n", "t", "i", "t", "l", "e", "d", " ", "R", "e", "c", "i", "p", "e">>) \o <<"'">>,
               <<"d", "a", "t", "e", ":", " ">> \o Today,
               <<"c", "u", "i", "s", "i", "n", "e", ":", " ">> \o StrOr(recipeData.cuisine, <<>>),
               <<"c", "o", "u", "r", "s", "e", ":", " ">> \o StrOr(recipeData.course, <<>>),
               <<"s", "e", "r", "v", "i", "n", "g", "s", ":", " ">> \o StrOr(recipeData.servings, <<>>),
               <<"p", "r", "e", "p", "_", "t", "i", "m", "e", ":", " ">> \o StrOr(recipeData.prepTime, <<>>),
               <<"c", "o", "o", "k", "_", "t", "i", "m", "e", ":", " ">> \o StrOr(recipeData.cookTime, <<>>),
               <<"t", "a", "g", "s", ":">>,
               <<" ", " ", "-", " ", "r", "e", "c", "i", "p", "e">>,
               <<"i", "n", "g", "r", "e", "d", "i", "e", "n", "t", "s", ":">> >>
            \o [k \in DOMAIN names |-> <<" ", " ", "-", " ">> \o names[k]]
            \o << <<"-", "-", "-">>, <<>> >>
        content ==
            << <<"#", "#", " ", "I", "n", "g", "r", "e", "d", "i", "e", "n", "t", "s">>, <<>> >>
            \o [k \in DOMAIN recipeData.ingredients |->
                  <<"-", " ">> \o recipeData.ingredients[k]]
            \o << <<>>, <<"#", "#", " ", "D", "i", "r", "e", "c", "t", "i", "o", "n", "s">>, <<>> >>
            \o recipeData.instructions
            \o << <<>>, <<"#", "#", " ", "N", "o", "t", "e", "s">>, <<>>, <<"S", "o", "u", "r", "c", "e", ":", " ">> \o sourceUrl, <<>> >>
    IN  Join(frontmatter, <<"\n">>) \o Join(content, <<"\n">>)

\* content.match(/title:\s*'([^']+)'/): the text between the quotes at the
\* first place from i on where "title:", white space, a quote, one or more
\* characters other than a quote and a quote follow one another; NullStr
\* when there is no such place
RECURSIVE TitleMatch(_, _)
TitleMatch(content, i) ==
    LET at == IndexOfFrom(content, <<"t", "i", "t", "l", "e", ":">>, i)
        quote == at + 6 + RunLen(content, at + 6, WhiteSpace)
        len == RunLenNot(content, quote + 1, {"'"})
    IN  IF at = 0 THEN NullStr
        ELSE IF /\ quote <= Len(content) /\ content[quote] = "'"
                /\ len > 0 /\ quote + len + 1 <= Len(content)
             THEN SubSeq(content, quote + 1, quote + len)
        ELSE TitleMatch(content, at + 1)

\* content.match(/key:\s*(.*)/)[1] for the first "key:" in the content: all
\* white space after the key is skipped, line ends included, and the rest of
\* the line reached is the value; NullStr when the key does not occur
FieldMatch(content, key) ==
    LET at == IndexOfFrom(content, key, 1)
        from == at + Len(key) + RunLen(content, at + Len(key), WhiteSpace)
    IN  IF at = 0 THEN NullStr
        ELSE SubSeq(content, from,
                    from + RunLenNot(content, from, LineTerminator) - 1)

\* cuisineMatch ? cuisineMatch[1].trim() : null
FieldValue(content, key) ==
    IF FieldMatch(content, key) = NullStr THEN NullStr
    ELSE trim(FieldMatch(content, key))

\* ((?:.*\n)*?)(?=##|$) from position start, a line start: whole lines are
\* taken until "##" or the end of the content follows; the position reached,
\* 0 when a line without "\n" at its end is in the way
RECURSIVE SectionEnd(_, _)
SectionEnd(content, start) ==
    LET eol == start + RunLenNot(content, start, LineTerminator)
    IN  IF start > Len(content) \/ OccursAt(content, <<"#", "#">>, start) THEN start
        ELSE IF eol <= Len(content) /\ content[eol] = "\n"
             THEN SectionEnd(content, eol + 1)
        ELSE 0

\* content.match(/header\s*\n((?:.*\n)*?)(?=##|$)/)[1]: the lines between the
\* first header that is followed by white space with a line end and the next
\* "##" at a line start; \s* takes all the white space it can, so that the
\* lines start after the last line end of the white space.  NullStr when
\* nothing matches.
RECURSIVE SectionMatch(_, _, _)
SectionMatch(content, header, i) ==
    LET at == IndexOfFrom(content, header, i)
        from == at + Len(header)
        white == RunLen(content, from, WhiteSpace)
        starts == {j + 1 : j \in {p \in from..(from + white - 1) :
                                    /\ content[p] = "\n"
                                    /\ SectionEnd(content, p + 1) # 0}}
        start == CHOOSE j \in starts : \A k \in starts : k <= j
    IN  IF at = 0 THEN NullStr
        ELSE IF starts = {} THEN SectionMatch(content, header, at + 1)
        ELSE SubSeq(content, start, SectionEnd(content, start) - 1)

\* line.replace(/^\s*-\s*/, '').trim()
StripDash(line) ==
    LET lead == RunLen(line, 1, WhiteSpace)
    IN  IF lead < Len(line) /\ line[lead + 1] = "-"
        THEN trim(Drop(line, lead + 1 + RunLen(line, lead + 2, WhiteSpace)))
        ELSE trim(line)

\* line.trim().startsWith('-')
IsDashed(line) == startsWith(trim(line), <<"-">>)

\* line.trim() && line.trim().startsWith('-')
IsListItem(line) == trim(line) # <<>> /\ startsWith(trim(line), <<"-">>)

\* the lines of the "## Ingredients" section that start with "-", without the
\* dash
IngredientLines(content) ==
    LET section == SectionMatch(content, <<"#", "#", " ", "I", "n", "g", "r", "e", "d", "i", "e", "n", "t", "s">>, 1)
        lines == IF section = NullStr THEN <<>>
                 ELSE SelectSeq(SplitChar(section, "\n"), IsListItem)
    IN  [k \in DOMAIN lines |-> StripDash(lines[k])]

\* line.trim() && line.match(/^\d+\./)
IsNumbered(line) ==
    /\ trim(line) # <<>>
    /\ RunLen(line, 1, Digit) > 0
    /\ RunLen(line, 1, Digit) < Len(line)
    /\ line[RunLen(line, 1, Digit) + 1] = "."

\* the numbered lines of the "## Directions" section
InstructionLines(content) ==
    LET section == SectionMatch(content, <<"#", "#", " ", "D", "i", "r", "e", "c", "t", "i", "o", "n", "s">>, 1)
        lines == IF section = NullStr THEN <<>>
                 ELSE SelectSeq(SplitChar(section, "\n"), IsNumbered)
    IN  [k \in DOMAIN lines |-> trim(lines[k])]

\* recipeData of POST /extract, server.js:297-349, for the content of the
\* file and the url of the request
ReadRecipe(content, url) ==
    [title |-> IF TitleMatch(content, 1) = NullStr THEN <<"U", "n", "t", "i", "t", "l", "e", "d", " ", "R", "e", "c", "i", "p", "e">>
               ELSE TitleMatch(content, 1),
     cuisine |-> FieldValue(content, <<"c", "u", "i", "s", "i", "n", "e", ":">>),
     course |-> FieldValue(content, <<"c", "o", "u", "r", "s", "e", ":">>),
     servings |-> FieldValue(content, <<"s", "e", "r", "v", "i", "n", "g", "s", ":">>),
     prepTime |-> FieldValue(content, <<"p", "r", "e", "p", "_", "t", "i", "m", "e", ":">>),
     cookTime |-> FieldValue(content, <<"c", "o", "o", "k", "_", "t", "i", "m", "e", ":">>),
     sourceUrl |-> url,
     ingredients |-> IngredientLines(content),
     instructions |-> InstructionLines(content)]

\* content.match(/Source:\s*(https?:\/\/[^\s]+)/)[1]: the address at the first
\* "Source:" from i on that has one after it; NullStr when there is none
RECURSIVE SourceMatch(_, _)
SourceMatch(content, i) ==
    LET at == IndexOfFrom(content, <<"S", "o", "u", "r", "c", "e", ":">>, i)
        from == at + 7 + RunLen(content, at + 7, WhiteSpace)
        scheme == IF OccursAt(content, <<"h", "t", "t", "p", "s", ":", "/", "/">>, from) THEN 8
                  ELSE IF OccursAt(content, <<"h", "t", "t", "p", ":", "/", "/">>, from) THEN 7 ELSE 0
        rest == RunLenNot(content, from + scheme, WhiteSpace)
    IN  IF at = 0 THEN NullStr
        ELSE IF scheme > 0 /\ rest > 0
             THEN SubSeq(content, from, from + scheme + rest - 1)
        ELSE SourceMatch(content, at + 1)

\* (?:\s+-\s+.*\n?)* from position p: items of white space, a dash, white
\* space and the rest of the line, as many as follow one another; the
\* position reached
RECURSIVE ListItemsEnd(_, _)
ListItemsEnd(content, p) ==
    LET lead == RunLen(content, p, WhiteSpace)
        gap == RunLen(content, p + lead + 1, WhiteSpace)
        text == p + lead + 1 + gap
        eol == text + RunLenNot(content, text, LineTerminator)
    IN  IF /\ lead > 0 /\ p + lead <= Len(content) /\ content[p + lead] = "-"
           /\ gap > 0
        THEN ListItemsEnd(content,
                          IF eol <= Len(content) /\ content[eol] = "\n"
                          THEN eol + 1 ELSE eol)
        ELSE p

\* content.match(/ingredients:\s*\n((?:\s+-\s+.*\n?)*)/)[1] and the items made
\* of it: the list under the first "ingredients:" that has a line end in the
\* white space after it
RECURSIVE FrontmatterIngredients(_, _)
FrontmatterIngredients(content, i) ==
    LET at == IndexOfFrom(content, <<"i", "n", "g", "r", "e", "d", "i", "e", "n", "t", "s", ":">>, i)
        from == at + 12
        white == RunLen(content, from, WhiteSpace)
        ends == {p \in from..(from + white - 1) : content[p] = "\n"}
        start == 1 + CHOOSE p \in ends : \A q \in ends : q <= p
        lines == SelectSeq(SplitChar(SubSeq(content, start,
                                            ListItemsEnd(content, start) - 1),
                                     "\n"),
                           IsDashed)
    IN  IF at = 0 THEN <<>>
        ELSE IF ends = {} THEN FrontmatterIngredients(content, at + 1)
        ELSE [k \in DOMAIN lines |-> StripDash(lines[k])]

\* filename.replace('.md', ''): the first ".md" of the name removed
WithoutMd(filename) ==
    LET at == IndexOfFrom(filename, <<".", "m", "d">>, 1)
    IN  IF at = 0 THEN filename
        ELSE Take(filename, at - 1) \o Drop(filename, at + 2)

\* recipeData of the import routes, server.js:946-1010 and 1031-1095, for
\* the content of the file filename
ImportedRecipe(content, filename) ==
    [title |-> IF TitleMatch(content, 1) = NullStr THEN WithoutMd(filename)
               ELSE TitleMatch(content, 1),
     cuisine |-> FieldValue(content, <<"c", "u", "i", "s", "i", "n", "e", ":">>),
     course |-> FieldValue(content, <<"c", "o", "u", "r", "s", "e", ":">>),
     servings |-> FieldValue(content, <<"s", "e", "r", "v", "i", "n", "g", "s", ":">>),
     prepTime |-> FieldValue(content, <<"p", "r", "e", "p", "_", "t", "i", "m", "e", ":">>),
     cookTime |-> FieldValue(content, <<"c", "o", "o", "k", "_", "t", "i", "m", "e", ":">>),
     sourceUrl |-> SourceMatch(content, 1),
     ingredients |-> IF IngredientLines(content) # <<>>
                     THEN IngredientLines(content)
                     ELSE FrontmatterIngredients(content, 1),
     instructions |-> InstructionLines(content)]

\* title.toLowerCase().replace(/[^a-z0-9]+/g, '-').replace(/^-|-$/g, '') +
\* '.md', the name of the file the extractor writes
RecipeFileName(title) ==
    LET lower == toLowerCase(title)
        words == SplitRuns(lower,
                           {lower[k] : k \in DOMAIN lower} \ (Lower \cup Digit))
        dashed == Join(words, <<"-">>)
        inner == IF dashed # <<>> /\ dashed[1] = "-" THEN Drop(dashed, 1) ELSE dashed
    IN  (IF inner # <<>> /\ inner[Len(inner)] = "-"
         THEN Take(inner, Len(inner) - 1) ELSE inner) \o <<".", "m", "d">>

\* recipeData of the extractor, as extractRecipe hands it to formatToObsidian
\* (the title and the list of ingredients not empty, the instructions
\* numbered), with the address of the page
SampleExtracted ==
    {[title |-> <<"C", "a", "k", "e">>, cuisine |-> <<"F", "r", "e", "n", "c", "h">>, course |-> <<"D", "e", "s", "s", "e", "r", "t">>,
      servings |-> <<"8", " ", "s", "e", "r", "v", "i", "n", "g", "s">>, prepTime |-> <<"1", "0", " ", "m", "i", "n", "u", "t", "e", "s">>,
      cookTime |-> <<"1", " ", "h", "o", "u", "r">>,
      ingredients |-> << <<"2", " ", "c", "u", "p", "s", " ", "(", "p", "a", "c", "k", "e", "d", ")", " ", "b", "r", "o", "w", "n", "-", "s", "u", "g", "a", "r", ",", " ", "s", "i", "f", "t", "e", "d">>, <<"2", " ", "e", "g", "g", "s">> >>,
      instructions |-> << <<"1", ".", " ", "M", "i", "x">>, <<"2", ".", " ", "B", "a", "k", "e">> >>],
     [title |-> <<"M", "o", "m", "'", "s", " ", "P", "i", "e">>, cuisine |-> <<"F", "r", "e", "n", "c", "h">>, course |-> <<>>,
      servings |-> <<>>, prepTime |-> <<"1", "0", " ", "m", "i", "n", "u", "t", "e", "s">>, cookTime |-> <<>>,
      ingredients |-> << <<"1", " ", "p", "i", "n", "c", "h", " ", "o", "f", " ", "s", "e", "a", " ", "s", "a", "l", "t">> >>,
      instructions |-> << <<"1", ".", " ", "S", "t", "i", "r">> >>],
     [title |-> <<"S", "o", "u", "p">>, cuisine |-> <<>>, course |-> <<>>,
      servings |-> <<"4">>, prepTime |-> <<>>, cookTime |-> <<"5", " ", "m", "i", "n">>,
      ingredients |-> << <<"2", " ", "c", "l", "o", "v", "e", "s", " ", "g", "a", "r", "l", "i", "c">> >>,
      instructions |-> <<>>]}
SampleUrls == {<<"h", "t", "t", "p", "s", ":", "/", "/", "a">>, <<"h", "t", "t", "p", ":", "/", "/", "b", "/", "c">>}

---------------------------------------------------------------------------
(* SpecCalls: one call of a pure method of RecipeDatabase, from the call    *)
(* with its arguments to its return                                         *)

NoCall == [op |-> "none"]

\* the sessions of the session store (express-session, server.js:44-55); of
\* each the value of req.session.authenticated, FALSE when it is not set
SessionIds == {"s1", "s2"}
NoSessions == [s \in SessionIds |-> FALSE]

\* SAVE_PATH ('./recipes') and the directory temp of the server, as lists of
\* path components; a file is a record of its path and its content
SAVE_PATH == << <<"r", "e", "c", "i", "p", "e", "s">> >>
TempRoot == << <<"t", "e", "m", "p">> >>
File(path, content) == [path |-> path, content |-> content]

\* the files on disk when the server starts: a recipe saved by an earlier
\* extraction, a file in a directory below SAVE_PATH and a file next to it
InitialFiles ==
    {File(SAVE_PATH \o << <<"c", "a", "k", "e", ".", "m", "d">> >>,
          formatToObsidian(CHOOSE r \in SampleExtracted : r.title = <<"C", "a", "k", "e">>,
                           <<"h", "t", "t", "p", "s", ":", "/", "/", "a">>)),
     File(SAVE_PATH \o << <<"s", "u", "b">>, <<"b", ".", "m", "d">> >>, <<"b", "e", "l", "o", "w">>),
     File(<< <<"x", ".", "m", "d">> >>, <<"o", "u", "t", "s", "i", "d", "e">>)}

\* the directories on disk when the server starts
InitialDirs == {SAVE_PATH, SAVE_PATH \o << <<"s", "u", "b">> >>, TempRoot}

\* no extraction request in flight
NoJobs == <<>>

PendingCalls ==
    {[op |-> "parseQuantity", returned |-> FALSE, quantityStr |-> s] :
        s \in QuantityRuns \cup SampleRuns \cup {UndefinedStr}}
    \cup {[op |-> "convertToMetric", returned |-> FALSE,
           quantity |-> q, unit |-> u, ingredient |-> n] :
            q \in SampleQuantities, u \in SampleUnits, n \in SampleNames}
    \cup {[op |-> "parseIngredient", returned |-> FALSE,
           ingredientLine |-> LineOf(p[1], p[2], p[3]), parts |-> p] :
            p \in LineParts}
    \cup {[op |-> "parseIngredient", returned |-> FALSE,
           ingredientLine |-> l, parts |-> <<>>] : l \in OtherLines \cup {<<>>}}
    \cup {[op |-> "formatToObsidian", returned |-> FALSE,
           recipeData |-> r, sourceUrl |-> u] :
            r \in SampleExtracted, u \in SampleUrls}

Return(value) == [call EXCEPT !.returned = TRUE] @@ ("ret" :> value)

FracIdle ==
    decimal = Whole(0) /\ frac = FracStart(Whole(0)) /\ fpc = "idle" /\ fres = NullStr
StoreEmpty ==
    /\ recipes = {} /\ ingredients = {} /\ instructions = {}
    /\ nextId = 1 /\ result = NoCall
ServerIdle ==
    /\ sessions = NoSessions /\ response = NoCall
    /\ files = InitialFiles /\ dirs = InitialDirs
    /\ clock = 0 /\ jobs = NoJobs
fracVars == <<decimal, frac, fpc, fres>>
storeVars == <<recipes, ingredients, instructions, nextId, result>>
serverVars == <<sessions, response, files, dirs, clock, jobs>>

CallParseQuantity ==
    /\ call.op = "parseQuantity" /\ ~call.returned
    /\ call' = Return(parseQuantity(call.quantityStr))
    /\ UNCHANGED <<fracVars, storeVars, serverVars>>

CallConvertToMetric ==
    /\ call.op = "convertToMetric" /\ ~call.returned
    /\ call' = Return(convertToMetric(call.quantity, call.unit, call.ingredient))
    /\ UNCHANGED <<fracVars, storeVars, serverVars>>

CallParseIngredient ==
    /\ call.op = "parseIngredient" /\ ~call.returned
    /\ call' = Return(parseIngredient(call.ingredientLine))
    /\ UNCHANGED <<fracVars, storeVars, serverVars>>

\* the extractor writes the file of a recipe
CallFormatToObsidian ==
    /\ call.op = "formatToObsidian" /\ ~call.returned
    /\ call' = Return(formatToObsidian(call.recipeData, call.sourceUrl))
    /\ UNCHANGED <<fracVars, storeVars, serverVars>>

\* POST /extract reads the file the extractor wrote for the url of the request
CallReadRecipe ==
    /\ call.op = "formatToObsidian" /\ call.returned
    /\ call' = [op |-> "ReadRecipe", returned |-> TRUE,
                recipeData |-> call.recipeData, sourceUrl |-> call.sourceUrl,
                content |-> call.ret,
                ret |-> ReadRecipe(call.ret, call.sourceUrl)]
    /\ UNCHANGED <<fracVars, storeVars, serverVars>>

\* an import route reads the file the extractor wrote
CallImportedRecipe ==
    /\ call.op = "formatToObsidian" /\ call.returned
    /\ call' = [op |-> "ImportedRecipe", returned |-> TRUE,
                recipeData |-> call.recipeData, sourceUrl |-> call.sourceUrl,
                content |-> call.ret,
                ret |-> ImportedRecipe(call.ret,
                                      RecipeFileName(call.recipeData.title))]
    /\ UNCHANGED <<fracVars, storeVars, serverVars>>

InitCalls == call \in PendingCalls /\ FracIdle /\ StoreEmpty /\ ServerIdle

NextCalls ==
    \/ CallParseQuantity
    \/ CallConvertToMetric
    \/ CallParseIngredient
    \/ CallFormatToObsidian
    \/ CallReadRecipe
    \/ CallImportedRecipe

SpecCalls == InitCalls /\ [][NextCalls]_vars

---------------------------------------------------------------------------
(* SpecFrac: decimalToFraction, one iteration of its loop at a time *)

\* arguments: the fractions n/d with |n| <= MaxNumer and 1 <= d <= MaxDenom
MaxNumer == 24
MaxDenom == 9
SampleDecimals ==
    {Num(n, d) : n \in (-MaxNumer)..MaxNumer, d \in 1..MaxDenom}
      \cup {NaN, Infinity, NegInfinity,
            <<1000001, 1000>>,   \* 1000.001, within tolerance of 1000
            <<1000999, 1000>>,   \* 1000.999, within tolerance of 1001
            <<2001, 2>>,         \* 1000.5
            <<330006, 11>>,      \* 30000 + 6/11
            <<500009, 20>>}      \* 25000.45: 25000 3/7 is within tolerance,
                                 \* the convergents are 25000 1/2 and 25000 4/9

\* do { ... } while (...): the body, then the test
FracStep ==
    /\ fpc = "loop"
    /\ frac' = FracBody(frac)
    /\ fpc' = IF FracContinue(decimal, frac') THEN "loop" ELSE "format"
    /\ UNCHANGED <<decimal, fres, call, storeVars, serverVars>>

\* the code after the loop, and the return
FracReturn ==
    /\ fpc = "format"
    /\ fres' = FracFormat(frac)
    /\ fpc' = "done"
    /\ UNCHANGED <<decimal, frac, call, storeVars, serverVars>>

InitFrac ==
    /\ decimal \in SampleDecimals
    /\ frac = FracStart(decimal)
    /\ fpc = "loop" /\ fres = NullStr
    /\ call = NoCall /\ StoreEmpty /\ ServerIdle

NextFrac == FracStep \/ FracReturn

\* ENABLED <<NextFrac>>_vars, written out: the call has not returned, and its
\* next step changes the state (an iteration that leaves the locals as they
\* are and goes on looping is a step the state does not show)
FracEnabled ==
    \/ fpc = "format"
    \/ /\ fpc = "loop"
       /\ FracBody(frac) # frac \/ ~FracContinue(decimal, FracBody(frac))

\* Weak fairness of NextFrac, WF_vars(NextFrac), with ENABLED written out as
\* FracEnabled (TLC evaluates ENABLED of the arithmetic above without caching
\* its intermediate values, which takes too long).  The method is synchronous
\* code: it runs on until it returns.
FairFrac == []<>(~FracEnabled) \/ []<><<NextFrac>>_vars

SpecFrac == InitFrac /\ [][NextFrac]_vars /\ FairFrac

---------------------------------------------------------------------------
(* The recipe store: tables recipes and ingredients of the SQLite database, *)
(* src/unnamed/part_001:13-47, and the methods that write and read them     *)

\* what a method returns when it returns null instead of an object or a list
NullObject == [null |-> TRUE]

\* value || null of a string
OrNull(s) == IF s = <<>> THEN NullStr ELSE s

\* a number bound to a REAL column: SQLite stores NaN as NULL
ToReal(x) == IF IsNaN(x) THEN Null ELSE x

\* Mutant of IngredientRow: the index not passed on, sort_order its DEFAULT 0
IngredientRowUnnumbered(recipeId, ingredient, parsed, index) ==
    [recipe_id |-> recipeId,
     original_text |-> ingredient,
     ingredient_name |-> parsed.ingredient_name,
     quantity |-> ToReal(parsed.quantity),
     unit |-> parsed.unit,
     original_quantity |-> ToReal(parsed.original_quantity),
     original_unit |-> parsed.original_unit,
     converted |-> IF parsed.converted THEN 1 ELSE 0,
     display_text |-> parsed.display_text,
     sort_order |-> 0]

\* the column values insertIngredient.run(...) writes for the ingredient at
\* position index, parsed being this.parseIngredient(ingredient) (the columns
\* id and notes are left out)
IngredientRow(recipeId, ingredient, parsed, index) ==
    [recipe_id |-> recipeId,
     original_text |-> ingredient,
     ingredient_name |-> parsed.ingredient_name,
     quantity |-> ToReal(parsed.quantity),
     unit |-> parsed.unit,
     original_quantity |-> ToReal(parsed.original_quantity),
     original_unit |-> parsed.original_unit,
     converted |-> IF parsed.converted THEN 1 ELSE 0,
     display_text |-> parsed.display_text,
     sort_order |-> index]

\* Mutant of IngredientsOf: ORDER BY sort_order DESC
IngredientsOfDescending(recipeId) ==
    LET rows == {i \in ingredients : i.recipe_id = recipeId}
    IN  [k \in 1..Cardinality(rows) |->
            CHOOSE i \in rows : i.sort_order = Cardinality(rows) - k]

\* SELECT * FROM ingredients WHERE recipe_id = ? ORDER BY sort_order
\* (saveRecipe numbers the rows of a recipe 0, 1, 2, ...)
IngredientsOf(recipeId) ==
    LET rows == {i \in ingredients : i.recipe_id = recipeId}
    IN  [k \in 1..Cardinality(rows) |-> CHOOSE i \in rows : i.sort_order = k - 1]

\* instruction.replace(/^\d+\.\s*/, ''): a leading step number, its point
\* and the white space after it removed
StripStepNumber(instruction) ==
    LET n == RunLen(instruction, 1, Digit)
    IN  IF n > 0 /\ n < Len(instruction) /\ instruction[n + 1] = "."
        THEN Drop(instruction, n + 1 + RunLen(instruction, n + 2, WhiteSpace))
        ELSE instruction

\* SELECT * FROM instructions WHERE recipe_id = ? ORDER BY step_number
\* (saveRecipe numbers the rows of a recipe 1, 2, 3, ...)
InstructionsOf(recipeId) ==
    LET rows == {i \in instructions : i.recipe_id = recipeId}
    IN  [k \in 1..Cardinality(rows) |-> CHOOSE i \in rows : i.step_number = k]

\* getRecipe(id): the row of the recipe with its ingredients in the order of
\* sort_order and its instructions in the order of step_number (the tags of
\* the recipe are left out)
getRecipe(id) ==
    IF ~\E r \in recipes : r.id = id THEN NullObject
    ELSE (CHOOSE r \in recipes : r.id = id)
            @@ [ingredients |-> IngredientsOf(id),
                instructions |-> InstructionsOf(id)]

\* servingsText.match(/(\d+(?:\.\d+)?)/): the first run of digits, with a
\* point and the digits after it when there are any
parseServings(servingsText) ==
    IF servingsText = NullStr \/ servingsText = <<>> THEN Null
    ELSE LET n == Len(servingsText)
             start == RunLenNot(servingsText, 1, Digit) + 1
             whole == RunLen(servingsText, start, Digit)
             point == start + whole
             decimals == IF point <= n /\ servingsText[point] = "."
                         THEN RunLen(servingsText, point + 1, Digit) ELSE 0
             len == IF decimals > 0 THEN whole + 1 + decimals ELSE whole
         IN  IF start > n THEN Null
             ELSE parseFloat(SubSeq(servingsText, start, start + len - 1))

\* the callback of ingredients.map in scaleIngredients
ScaledIngredient(ing, scaleFactor) ==
    IF Truthy(ing.quantity)
    THEN LET scaledQuantity == Mul(ing.quantity, scaleFactor)
             fraction == decimalToFraction(scaledQuantity)
             displayQuantity ==
                 IF Rem(scaledQuantity, Whole(1)) = Whole(0)
                 THEN NumToString(scaledQuantity)
                 ELSE IF fraction # NullStr THEN fraction
                 ELSE toFixed2(scaledQuantity)
             scaledText == trim(displayQuantity \o <<" ">> \o ing.unit
                                  \o <<" ">> \o ing.ingredient_name)
         IN  ing @@ [scaled_quantity |-> scaledQuantity,
                     display_quantity |-> displayQuantity,
                     scaled_text |-> scaledText]
    ELSE ing

scaleIngredients(recipeId, scaleFactor) ==
    LET rows == IngredientsOf(recipeId)
    IN  [k \in DOMAIN rows |-> ScaledIngredient(rows[k], scaleFactor)]

\* Mutant of scaleIngredientsToServings: the factor taken the other way round,
\* originalServings / desiredServings
scaleIngredientsToServingsInverse(recipeId, desiredServings) ==
    IF ~\E r \in recipes : r.id = recipeId THEN NullObject
    ELSE LET recipe == CHOOSE r \in recipes : r.id = recipeId
             originalServings == parseServings(recipe.servings)
             scaleFactor == Div(originalServings, desiredServings)
         IN  IF ~Truthy(originalServings) \/ ~Truthy(desiredServings)
             THEN NullObject
             ELSE [scaleFactor |-> scaleFactor,
                   originalServings |-> originalServings,
                   desiredServings |-> desiredServings,
                   ingredients |-> scaleIngredients(recipeId, scaleFactor)]

scaleIngredientsToServings(recipeId, desiredServings) ==
    IF ~\E r \in recipes : r.id = recipeId THEN NullObject
    ELSE LET recipe == CHOOSE r \in recipes : r.id = recipeId
             originalServings == parseServings(recipe.servings)
             scaleFactor == Div(desiredServings, originalServings)
         IN  IF ~Truthy(originalServings) \/ ~Truthy(desiredServings)
             THEN NullObject
             ELSE [scaleFactor |-> scaleFactor,
                   originalServings |-> originalServings,
                   desiredServings |-> desiredServings,
                   ingredients |-> scaleIngredients(recipeId, scaleFactor)]

\* the most recipes saved in one behaviour
MaxSaves == 2
RecipeIds == 1..MaxSaves

\* arguments of saveRecipe
SampleRecipes ==
    {[title |-> <<"C", "a", "k", "e">>,
      servings |-> <<"8", " ", "s", "e", "r", "v", "i", "n", "g", "s">>,
      sourceUrl |-> <<"h", "t", "t", "p", "s", ":", "/", "/", "a">>,
      instructions |-> << <<"1", ".", " ", "M", "i", "x">>, <<"2", ".", " ", "B", "a", "k", "e">> >>,
      ingredients |->
        << <<"2", " ", "c", "u", "p", "s", " ", "(", "p", "a", "c", "k", "e", "d", ")", " ", "b", "r", "o", "w", "n", " ", "s", "u", "g", "a", "r">>,
           <<"2", " ", "e", "g", "g", "s">>,
           <<"s", "a", "l", "t", " ", "t", "o", " ", "t", "a", "s", "t", "e">> >>],
     [title |-> <<"S", "o", "u", "p">>,
      servings |-> <<"V", "a", "r", "i", "e", "s">>,
      sourceUrl |-> <<>>,
      instructions |-> << <<"B", "o", "i", "l">> >>,
      ingredients |->
        << <<"0", "/", "2", " ", "c", "u", "p", "s", " ", "(", "x", ")">>,
           <<"2", " ", "c", "l", "o", "v", "e", "s", " ", "(", "p", "e", "e", "l", "e", "d", ")", " ", "g", "a", "r", "l", "i", "c">> >>],
     [title |-> <<"S", "o", "u", "p">>,
      servings |-> <<>>,
      sourceUrl |-> <<"h", "t", "t", "p", "s", ":", "/", "/", "a">>,
      instructions |-> <<>>,
      ingredients |->
        << <<>>,
           <<"/", " ", "x">>,
           <<"1", "/", "3", " ", "c", "u", "p", " ", "m", "i", "l", "k">> >>],
     [title |-> <<"C", "a", "k", "e">>,
      servings |-> <<"M", "a", "k", "e", "s", " ", "2", ".", "5", " ", "d", "o", "z", "e", "n">>,
      sourceUrl |-> <<"h", "t", "t", "p", "s", ":", "/", "/", "b">>,
      instructions |-> << <<"1", "0", ".", " ", " ", "R", "e", "s", "t">>, <<"S", "e", "r", "v", "e">> >>,
      ingredients |->
        << <<"1", " ", "1", "/", "2", " ", "c", "u", "p", "s", " ", "c", "h", "o", "p", "p", "e", "d", " ", "o", "n", "i", "o", "n">>,
           <<"3", " ", "(", "l", "a", "r", "g", "e", ")", " ", "e", "g", "g", "s">>,
           <<"s", "a", "l", "t", " ", "t", "o", " ", "t", "a", "s", "t", "e">> >>],
     [title |-> <<"S", "o", "u", "p">>,
      servings |-> <<"S", "e", "r", "v", "e", "s", " ", "0">>,
      sourceUrl |-> <<>>,
      instructions |-> <<>>,
      ingredients |-> <<>>]}

\* arguments of scaleIngredients and scaleIngredientsToServings
SampleFactors == {Whole(1), Whole(2), <<1, 2>>, <<1, 3>>, Whole(0)}
SampleServings == {Whole(4), Whole(12), Whole(0), Whole(-2), Undefined, NaN}

\* Mutant of ReplacedBy: the recipes table without UNIQUE(source_url)
ReplacedByNone(sourceUrl) == {}

\* the ids of the rows INSERT OR REPLACE removes: those with the source_url
\* of the new row, when it is not NULL
ReplacedBy(sourceUrl) ==
    {r.id : r \in {x \in recipes : sourceUrl # NullStr /\ x.source_url = sourceUrl}}

\* saveRecipe(recipeData, markdownContent).  INSERT OR REPLACE with
\* UNIQUE(source_url) removes the row that has the same source_url, if it is
\* not NULL, and with it (ON DELETE CASCADE; better-sqlite3 turns foreign keys
\* on) the ingredients of that row; the new row gets the next id of the
\* AUTOINCREMENT column.
saveRecipe(recipeData) ==
    LET recipeId == nextId
        sourceUrl == OrNull(recipeData.sourceUrl)
        replaced == ReplacedBy(sourceUrl)
    IN  /\ recipes' =
               {r \in recipes : r.id \notin replaced}
                 \cup {[id |-> recipeId,
                        title |-> recipeData.title,
                        servings |-> OrNull(recipeData.servings),
                        source_url |-> sourceUrl]}
        /\ ingredients' =
               {i \in ingredients : i.recipe_id \notin replaced \cup {recipeId}}
                 \cup {IngredientRow(recipeId, recipeData.ingredients[k],
                                     parseIngredient(recipeData.ingredients[k]),
                                     k - 1) :
                         k \in DOMAIN recipeData.ingredients}
        /\ instructions' =
               {i \in instructions : i.recipe_id \notin replaced \cup {recipeId}}
                 \cup {[recipe_id |-> recipeId, step_number |-> k,
                        instruction |-> StripStepNumber(recipeData.instructions[k])] :
                         k \in DOMAIN recipeData.instructions}
        /\ nextId' = nextId + 1

SaveRecipe ==
    \E recipeData \in SampleRecipes :
        /\ nextId <= MaxSaves
        /\ saveRecipe(recipeData)
        /\ result' = [op |-> "saveRecipe", ret |-> nextId]
        /\ UNCHANGED <<call, fracVars, serverVars>>

\* deleteRecipe(recipeId): DELETE FROM recipes WHERE id = ?, with the cascade
DeleteRecipe ==
    \E recipeId \in RecipeIds :
        /\ recipes' = {r \in recipes : r.id # recipeId}
        /\ ingredients' = {i \in ingredients : i.recipe_id # recipeId}
        /\ instructions' = {i \in instructions : i.recipe_id # recipeId}
        /\ result' = [op |-> "deleteRecipe", recipeId |-> recipeId,
                      changes |-> Cardinality({r \in recipes : r.id = recipeId})]
        /\ UNCHANGED <<nextId, call, fracVars, serverVars>>

\* Mutant of ScaleIngredients: the scaled quantities written back to the rows
ScaleIngredientsPersisted ==
    \E recipeId \in RecipeIds : \E scaleFactor \in SampleFactors :
        /\ result' = [op |-> "scaleIngredients", recipeId |-> recipeId,
                      scaleFactor |-> scaleFactor,
                      ret |-> scaleIngredients(recipeId, scaleFactor)]
        /\ ingredients' =
               {IF i.recipe_id = recipeId /\ Truthy(i.quantity)
                THEN [i EXCEPT !.quantity = Mul(i.quantity, scaleFactor)]
                ELSE i : i \in ingredients}
        /\ UNCHANGED <<recipes, instructions, nextId, call, fracVars, serverVars>>

ScaleIngredients ==
    \E recipeId \in RecipeIds : \E scaleFactor \in SampleFactors :
        /\ result' = [op |-> "scaleIngredients", recipeId |-> recipeId,
                      scaleFactor |-> scaleFactor,
                      ret |-> scaleIngredients(recipeId, scaleFactor)]
        /\ UNCHANGED <<recipes, ingredients, instructions, nextId, call, fracVars, serverVars>>

ScaleIngredientsToServings ==
    \E recipeId \in RecipeIds : \E desiredServings \in SampleServings :
        /\ result' = [op |-> "scaleIngredientsToServings", recipeId |-> recipeId,
                      desiredServings |-> desiredServings,
                      ret |-> scaleIngredientsToServings(recipeId, desiredServings)]
        /\ UNCHANGED <<recipes, ingredients, instructions, nextId, call, fracVars, serverVars>>

GetRecipe ==
    \E id \in RecipeIds :
        /\ result' = [op |-> "getRecipe", recipeId |-> id, ret |-> getRecipe(id)]
        /\ UNCHANGED <<recipes, ingredients, instructions, nextId, call, fracVars, serverVars>>

\* after new RecipeDatabase(dbPath) on a new file: the tables are empty
Init == call = NoCall /\ FracIdle /\ StoreEmpty /\ ServerIdle

Next ==
    \/ SaveRecipe
    \/ DeleteRecipe
    \/ GetRecipe
    \/ ScaleIngredients
    \/ ScaleIngredientsToServings

Spec == Init /\ [][Next]_vars

---------------------------------------------------------------------------
(* The HTTP server, src/server.js: sessions, requireAuth and the routes     *)
(* that call the recipe store                                               *)

\* PASSWORD = process.env.APP_PASSWORD || 'recipe123', the variable not set
PASSWORD == <<"r", "e", "c", "i", "p", "e", "1", "2", "3">>

\* parseInt(s): white space skipped, an optional sign, then the digits that
\* follow; NaN when there is none
parseInt(s) ==
    LET t == Drop(s, RunLen(s, 1, WhiteSpace))
        signed == t # <<>> /\ t[1] \in {"-", "+"}
        u == IF signed THEN Drop(t, 1) ELSE t
        n == RunLen(u, 1, Digit)
    IN  IF n = 0 THEN NaN
        ELSE IF signed /\ t[1] = "-" THEN Whole(-IntOf(Take(u, n)))
        ELSE Whole(IntOf(Take(u, n)))

\* a number bound to "WHERE id = ?": the id of the row it can match (ids
\* start at 1; 0 stands for a value that matches no row)
RowId(x) == IF IsFinite(x) /\ x[2] = 1 /\ x[1] > 0 THEN x[1] ELSE 0

\* the response to a request: the route, the session of the request and its
\* parameters (request), the status and the body sent, whether the handler
\* behind requireAuth ran, and the calls it made on the store
Respond(op, s, request, status, body, handled, core) ==
    [op |-> op, session |-> s, request |-> request, status |-> status,
     body |-> body, handled |-> handled, core |-> core]

\* Mutant of requireAuth: every request is let through
requireAuthOff(s) == TRUE

\* requireAuth, the test: req.session && req.session.authenticated
requireAuth(s) == sessions[s]

\* requireAuth, the else branch: 401 and JSON for a path under /api/, a
\* redirect to /login for any other path
Denied(op, s, request, path) ==
    IF startsWith(path, <<"/", "a", "p", "i", "/">>)
    THEN Respond(op, s, request, 401,
                 [success |-> FALSE, error |-> "Unauthorized"], FALSE, <<>>)
    ELSE Respond(op, s, request, 302, [location |-> "/login"], FALSE, <<>>)

\* the value of password in the body of POST /login; UndefinedStr when the
\* body has none
SamplePasswords == {PASSWORD, <<"r", "e", "c", "i", "p", "e", "1", "2">>, <<"R", "e", "c", "i", "p", "e", "1", "2", "3">>, <<>>, UndefinedStr}

\* app.post('/login')
PostLogin ==
    \E s \in SessionIds : \E password \in SamplePasswords :
        /\ IF password = PASSWORD
           THEN /\ sessions' = [sessions EXCEPT ![s] = TRUE]
                /\ response' = Respond("POST /login", s, [password |-> password],
                                       200, [success |-> TRUE], TRUE, <<>>)
           ELSE /\ sessions' = sessions
                /\ response' = Respond("POST /login", s, [password |-> password],
                                       401, [success |-> FALSE,
                                             error |-> "Invalid password"],
                                       TRUE, <<>>)
        /\ UNCHANGED <<call, fracVars, storeVars, files, dirs, clock, jobs>>

\* app.get('/logout'): the session is destroyed, the next request with its
\* cookie gets a session without the flag
GetLogout ==
    \E s \in SessionIds :
        /\ sessions' = [sessions EXCEPT ![s] = FALSE]
        /\ response' = Respond("GET /logout", s, <<>>, 302,
                               [location |-> "/login"], TRUE, <<>>)
        /\ UNCHANGED <<call, fracVars, storeVars, files, dirs, clock, jobs>>

\* app.get('/'), the guarded route that is not under /api/
GetIndex ==
    \E s \in SessionIds :
        /\ response' = IF requireAuth(s)
                       THEN Respond("GET /", s, <<>>, 200,
                                    [file |-> "viewer.html"], TRUE, <<>>)
                       ELSE Denied("GET /", s, <<>>, <<"/">>)
        /\ UNCHANGED <<sessions, call, fracVars, storeVars, files, dirs, clock, jobs>>

\* the values of :id, :factor and :servings in the paths of the requests
SampleIdParams == {<<"1">>, <<"2">>, <<"x">>}
SampleFactorParams == {<<"2">>, <<"0", ".", "5">>, <<"0">>, <<"-", "1">>, <<"a", "b", "c">>, <<"3", "x">>}
SampleServingsParams == {<<"4">>, <<"1", "2">>, <<"0">>, <<"-", "2">>, <<"m", "a", "n", "y">>, <<"2", ".", "5">>}

\* Mutant of ScaleFactorInvalid: only a factor that is not a number refused
ScaleFactorNotANumber(factor) == IsNaN(factor)

\* isNaN(factor) || factor <= 0, and the same test on servings
ScaleFactorInvalid(factor) == IsNaN(factor) \/ Le(factor, Whole(0))

\* the handler of GET /api/recipe/:id/scale/:factor
ScaleHandler(s, request) ==
    LET id == parseInt(request.id)
        factor == parseFloat(request.factor)
    IN  IF ScaleFactorInvalid(factor)
        THEN Respond("GET /api/recipe/:id/scale/:factor", s, request, 400,
                     [success |-> FALSE, error |-> "Invalid scale factor"],
                     TRUE, <<>>)
        ELSE Respond("GET /api/recipe/:id/scale/:factor", s, request, 200,
                     [success |-> TRUE,
                      ingredients |-> scaleIngredients(RowId(id), factor)],
                     TRUE,
                     <<[method |-> "scaleIngredients", recipeId |-> id,
                        scaleFactor |-> factor]>>)

\* app.get('/api/recipe/:id/scale/:factor')
GetScale ==
    \E s \in SessionIds : \E id \in SampleIdParams : \E factor \in SampleFactorParams :
        /\ response' =
             IF requireAuth(s)
             THEN ScaleHandler(s, [id |-> id, factor |-> factor])
             ELSE Denied("GET /api/recipe/:id/scale/:factor", s,
                         [id |-> id, factor |-> factor],
                         <<"/", "a", "p", "i", "/", "r", "e", "c", "i", "p", "e", "/">> \o id \o <<"/", "s", "c", "a", "l", "e", "/">> \o factor)
        /\ UNCHANGED <<sessions, call, fracVars, storeVars, files, dirs, clock, jobs>>

\* Mutant of ScaleToServingsReply: the result sent without the test for null
ScaleToServingsReplyUntested(s, request, servings, scaled) ==
    Respond("GET /api/recipe/:id/scale-to-servings/:servings", s, request, 200,
            [success |-> TRUE, result |-> scaled], TRUE,
            <<[method |-> "scaleIngredientsToServings",
               recipeId |-> parseInt(request.id),
               desiredServings |-> servings, ret |-> scaled]>>)

\* the response of the scale-to-servings route once
\* db.scaleIngredientsToServings(id, servings) has returned scaled
ScaleToServingsReply(s, request, servings, scaled) ==
    IF scaled = NullObject
    THEN Respond("GET /api/recipe/:id/scale-to-servings/:servings", s, request,
                 400, [success |-> FALSE,
                       error |-> "Unable to scale recipe - servings not found"],
                 TRUE,
                 <<[method |-> "scaleIngredientsToServings",
                    recipeId |-> parseInt(request.id),
                    desiredServings |-> servings, ret |-> scaled]>>)
    ELSE Respond("GET /api/recipe/:id/scale-to-servings/:servings", s, request,
                 200, [success |-> TRUE, result |-> scaled], TRUE,
                 <<[method |-> "scaleIngredientsToServings",
                    recipeId |-> parseInt(request.id),
                    desiredServings |-> servings, ret |-> scaled]>>)

\* the handler of GET /api/recipe/:id/scale-to-servings/:servings
ScaleToServingsHandler(s, request) ==
    LET id == parseInt(request.id)
        servings == parseFloat(request.servings)
    IN  IF ScaleFactorInvalid(servings)
        THEN Respond("GET /api/recipe/:id/scale-to-servings/:servings", s,
                     request, 400,
                     [success |-> FALSE, error |-> "Invalid servings number"],
                     TRUE, <<>>)
        ELSE ScaleToServingsReply(s, request, servings,
                                  scaleIngredientsToServings(RowId(id), servings))

\* app.get('/api/recipe/:id/scale-to-servings/:servings')
GetScaleToServings ==
    \E s \in SessionIds : \E id \in SampleIdParams : \E servings \in SampleServingsParams :
        /\ response' =
             IF requireAuth(s)
             THEN ScaleToServingsHandler(s, [id |-> id, servings |-> servings])
             ELSE Denied("GET /api/recipe/:id/scale-to-servings/:servings", s,
                         [id |-> id, servings |-> servings],
                         <<"/", "a", "p", "i", "/", "r", "e", "c", "i", "p", "e", "/">> \o id \o <<"/", "s", "c", "a", "l", "e", "-", "t", "o", "-", "s", "e", "r", "v", "i", "n", "g", "s", "/">> \o servings)
        /\ UNCHANGED <<sessions, call, fracVars, storeVars, files, dirs, clock, jobs>>

\* (ingredients || []).map(i => (i.display_text || i.original_text ||
\* '').trim()).filter(Boolean)
DisplayIngredients(list) ==
    NonEmpty([k \in DOMAIN list |->
                trim(StrOr(list[k].display_text, StrOr(list[k].original_text, <<>>)))])

\* (instructions || []).map(inst => (inst.instruction || '').trim())
\* .filter(Boolean)
InstructionTexts(list) ==
    NonEmpty([k \in DOMAIN list |-> trim(StrOr(list[k].instruction, <<>>))])

\* JSON bodies of POST /api/recipes; a field the body does not have is
\* UndefinedStr (category_id, tags and date are not in these bodies)
SampleNewRecipes ==
    {[title |-> <<"C", "a", "k", "e">>, servings |-> <<"8", " ", "s", "e", "r", "v", "i", "n", "g", "s">>, source_url |-> <<"h", "t", "t", "p", "s", ":", "/", "/", "a">>,
      ingredients |-> << [original_text |-> <<"2", " ", "c", "u", "p", "s", " ", "f", "l", "o", "u", "r">>,
                          display_text |-> UndefinedStr] >>,
      instructions |-> << [instruction |-> <<"1", ".", " ", "M", "i", "x">>] >>],
     [title |-> <<"S", "o", "u", "p">>, servings |-> UndefinedStr, source_url |-> UndefinedStr,
      ingredients |-> << [original_text |-> <<"3", " ", "(", "l", "a", "r", "g", "e", ")", " ", "e", "g", "g", "s">>,
                          display_text |-> <<" ", "3", " ", "e", "g", "g", "s", " ">>],
                         [original_text |-> <<>>, display_text |-> UndefinedStr] >>,
      instructions |-> <<>>],
     [title |-> <<" ">>, servings |-> <<"2">>, source_url |-> UndefinedStr,
      ingredients |-> <<>>, instructions |-> <<>>]}

\* the handler of POST /api/recipes (the markdown text it builds for the
\* column markdown_content is left out)
CreateHandler(s, body) ==
    IF body.title \in {UndefinedStr, NullStr, <<>>} \/ trim(body.title) = <<>>
    THEN /\ response' = Respond("POST /api/recipes", s, body, 400,
                                [success |-> FALSE, error |-> "Title is required"],
                                TRUE, <<>>)
         /\ UNCHANGED <<recipes, ingredients, instructions, nextId>>
    ELSE /\ saveRecipe([title |-> body.title,
                        servings |-> StrOr(body.servings, NullStr),
                        sourceUrl |-> StrOr(body.source_url, NullStr),
                        ingredients |-> DisplayIngredients(body.ingredients),
                        instructions |-> InstructionTexts(body.instructions)])
         /\ response' = Respond("POST /api/recipes", s, body, 200,
                                [success |-> TRUE, id |-> nextId], TRUE,
                                <<[method |-> "saveRecipe"]>>)

\* app.post('/api/recipes')
PostRecipes ==
    \E s \in SessionIds : \E body \in SampleNewRecipes :
        /\ nextId <= MaxSaves
        /\ IF requireAuth(s)
           THEN CreateHandler(s, body)
           ELSE /\ response' = Denied("POST /api/recipes", s, body, <<"/", "a", "p", "i", "/", "r", "e", "c", "i", "p", "e", "s">>)
                /\ UNCHANGED <<recipes, ingredients, instructions, nextId>>
        /\ UNCHANGED <<sessions, result, call, fracVars, files, dirs, clock, jobs>>

\* app.get('/api/recipe/:id')
GetApiRecipe ==
    \E s \in SessionIds : \E id \in SampleIdParams :
        /\ response' =
             IF ~requireAuth(s)
             THEN Denied("GET /api/recipe/:id", s, [id |-> id], <<"/", "a", "p", "i", "/", "r", "e", "c", "i", "p", "e", "/">> \o id)
             ELSE IF getRecipe(RowId(parseInt(id))) = NullObject
             THEN Respond("GET /api/recipe/:id", s, [id |-> id], 404,
                          [success |-> FALSE, error |-> "Recipe not found"],
                          TRUE, <<[method |-> "getRecipe"]>>)
             ELSE Respond("GET /api/recipe/:id", s, [id |-> id], 200,
                          [success |-> TRUE,
                           recipe |-> getRecipe(RowId(parseInt(id)))],
                          TRUE, <<[method |-> "getRecipe"]>>)
        /\ UNCHANGED <<sessions, call, fracVars, storeVars, files, dirs, clock, jobs>>

\* the methods of class RecipeDatabase (src/unnamed/part_001:5-621)
RecipeDatabaseMethods ==
    {"initializeDatabase", "convertToMetric", "formatMeasurement",
     "parseIngredient", "formatQuantityForDisplay", "parseQuantity",
     "saveRecipe", "getAllRecipes", "getRecipe", "parseServings",
     "scaleIngredients", "scaleIngredientsToServings", "decimalToFraction",
     "createCategory", "getAllCategories", "updateRecipeCategory", "createTag",
     "addTagToRecipe", "removeTagFromRecipe", "searchRecipes",
     "exportToMarkdown", "deleteRecipe", "close"}

\* the methods PUT /api/recipe/:id calls to write the fields of its body:
\* db.updateRecipe when typeof db.updateRecipe === 'function', else the
\* setters, each with ?.( so that a method db does not have is not called
UpdateMethods ==
    {"updateRecipe", "updateRecipeTitle", "updateRecipeCuisine",
     "updateRecipeCourse", "updateRecipeServings", "updateRecipePrepTime",
     "updateRecipeCookTime", "updateRecipeSourceUrl",
     "replaceRecipeIngredients", "replaceRecipeInstructions"}

\* JSON bodies of PUT /api/recipe/:id; a field the body does not have is
\* UndefinedStr for a string and not given for a list (category_id and tags are
\* not in these bodies)
SampleUpdates ==
    {[title |-> <<"P", "i", "e">>, servings |-> <<"2">>, source_url |-> UndefinedStr,
      ingredients |-> [given |-> TRUE, list |-> << [original_text |-> <<"1", " ", "c", "u", "p", " ", "m", "i", "l", "k">>,
                          display_text |-> UndefinedStr] >>],
      instructions |-> [given |-> TRUE,
                        list |-> << [instruction |-> <<"S", "t", "i", "r">>] >>]],
     [title |-> UndefinedStr, servings |-> <<"6">>, source_url |-> UndefinedStr,
      ingredients |-> [given |-> FALSE, list |-> <<>>],
      instructions |-> [given |-> FALSE, list |-> <<>>]],
     [title |-> UndefinedStr, servings |-> UndefinedStr,
      source_url |-> UndefinedStr,
      ingredients |-> [given |-> FALSE, list |-> <<>>],
      instructions |-> [given |-> FALSE, list |-> <<>>]]}

\* app.put('/api/recipe/:id'): updateData is built from the body, and the
\* calls that would store it are made on the methods db has, of which there
\* is none; with no category_id and no tags in the body nothing else is
\* called, and the answer is success
PutRecipe ==
    \E s \in SessionIds : \E id \in SampleIdParams : \E body \in SampleUpdates :
        /\ response' =
             IF requireAuth(s)
             THEN Respond("PUT /api/recipe/:id", s, [id |-> id, body |-> body],
                          200, [success |-> TRUE], TRUE,
                          [m \in 1..Cardinality(UpdateMethods \cap RecipeDatabaseMethods)
                             |-> [method |-> "update"]])
             ELSE Denied("PUT /api/recipe/:id", s, [id |-> id, body |-> body],
                         <<"/", "a", "p", "i", "/", "r", "e", "c", "i", "p", "e", "/">> \o id)
        /\ UpdateMethods \cap RecipeDatabaseMethods = {}
        /\ UNCHANGED <<sessions, call, fracVars, storeVars, files, dirs, clock, jobs>>

NextServer ==
    \/ PostLogin
    \/ GetLogout
    \/ GetIndex
    \/ PostRecipes
    \/ GetApiRecipe
    \/ PutRecipe
    \/ GetScale
    \/ GetScaleToServings

SpecServer == Init /\ [][NextServer]_vars

---------------------------------------------------------------------------
(* SpecFiles: the routes of the server that take the name of a file of      *)
(* SAVE_PATH                                                                *)

\* path.normalize for a relative path on POSIX, the path given as the list
\* parts of its components and acc the components kept so far: an empty
\* component and "." are dropped, ".." takes away the component before it
\* unless there is none or it is ".." itself
RECURSIVE normalize(_, _)
normalize(parts, acc) ==
    IF parts = <<>> THEN acc
    ELSE IF Head(parts) \in {<<>>, <<".">>}
         THEN normalize(Tail(parts), acc)
    ELSE IF Head(parts) = <<".", ".">> /\ acc # <<>> /\ acc[Len(acc)] # <<".", ".">>
         THEN normalize(Tail(parts), Take(acc, Len(acc) - 1))
    ELSE normalize(Tail(parts), Append(acc, Head(parts)))

\* path.join(SAVE_PATH, filename) on POSIX (the images of the Dockerfile are
\* Linux): "/" is the only separator
pathJoin(base, filename) == normalize(base \o SplitChar(filename, "/"), <<>>)

\* the file at a path, and whether there is one
FileAt(path) == CHOOSE f \in files : f.path = path
IsFile(path) == \E f \in files : f.path = path

\* what decodeURIComponent leaves when it throws URIError
URIError == <<"URIError">>

\* the escapes that occur in the names of the requests, with the character
\* each stands for
PercentCodes ==
    {<<<<"2", "e">>, ".">>, <<<<"2", "E">>, ".">>, <<<<"2", "f">>, "/">>, <<<<"2", "F">>, "/">>,
     <<<<"5", "c">>, "\\">>, <<<<"5", "C">>, "\\">>, <<<<"2", "5">>, "%">>}

\* decodeURIComponent(raw): every escape replaced by its character; URIError
\* when a "%" is not followed by an escape
RECURSIVE decodeURIComponent(_)
decodeURIComponent(raw) ==
    IF raw = <<>> THEN <<>>
    ELSE LET escaped == raw[1] = "%"
             codes == {c \in PercentCodes : OccursAt(raw, c[1], 2)}
             rest == decodeURIComponent(IF escaped THEN Drop(raw, 3)
                                        ELSE Drop(raw, 1))
         IN  IF escaped /\ codes = {} THEN URIError
             ELSE IF rest = URIError THEN URIError
             ELSE IF escaped THEN <<(CHOOSE c \in codes : TRUE)[2]>> \o rest
             ELSE <<raw[1]>> \o rest

\* Mutant of InvalidToRead: only the ending of the name tested
InvalidEnding(filename) == ~endsWith(filename, <<".", "m", "d">>)

\* the test of GET /recipe/:filename on the name
InvalidToRead(filename) ==
    \/ ~endsWith(filename, <<".", "m", "d">>)
    \/ includesStr(filename, <<".", ".">>)
    \/ includes(filename, "/")

\* the test of deleteMarkdownHandler and of POST /api/import-markdown/:filename
InvalidToDelete(filename) ==
    InvalidToRead(filename) \/ includes(filename, "\\")

InvalidFilename ==
    [success |-> FALSE, error |-> "Invalid filename"]

\* a call of fs on a path
Fs(method, path) == [fs |-> method, path |-> path]

\* the values of req.params.filename, as Express hands them over (decoded
\* once): names of files that exist and of files that do not, names that lead
\* out of SAVE_PATH or below it, and names with a "%" in them
SampleFilenames ==
    {<<"c", "a", "k", "e", ".", "m", "d">>, <<"n", "o", "n", "e", ".", "m", "d">>, <<"c", "a", "k", "e", ".", "t", "x", "t">>, <<".", ".", "/", "x", ".", "m", "d">>, <<"s", "u", "b", "/", "b", ".", "m", "d">>, <<"s", "u", "b", "\\", "b", ".", "m", "d">>,
     <<".", ".", "m", "d">>, <<"%", "2", "e", "%", "2", "e", "%", "2", "f", "x", ".", "m", "d">>, <<"c", "a", "k", "e", "%", "2", "e", "m", "d">>, <<"1", "0", "0", "%", ".", "m", "d">>, <<"s", "u", "b", "%", "5", "c", "b", ".", "m", "d">>, <<>>}

\* the handler of GET /recipe/:filename
ReadHandler(s, filename) ==
    LET filePath == pathJoin(SAVE_PATH, filename)
    IN  IF InvalidToRead(filename)
        THEN Respond("GET /recipe/:filename", s, [filename |-> filename],
                     400, InvalidFilename, TRUE, <<>>)
        ELSE IF IsFile(filePath)
        THEN Respond("GET /recipe/:filename", s, [filename |-> filename],
                     200, [success |-> TRUE, content |-> FileAt(filePath).content],
                     TRUE, <<Fs("readFile", filePath)>>)
        ELSE Respond("GET /recipe/:filename", s, [filename |-> filename],
                     404, [success |-> FALSE, error |-> "Recipe not found"],
                     TRUE, <<Fs("readFile", filePath)>>)

\* app.get('/recipe/:filename')
GetRecipeFile ==
    \E s \in SessionIds : \E filename \in SampleFilenames :
        /\ response' = IF requireAuth(s) THEN ReadHandler(s, filename)
                       ELSE Denied("GET /recipe/:filename", s,
                                   [filename |-> filename],
                                   <<"/", "r", "e", "c", "i", "p", "e", "/">> \o filename)
        /\ UNCHANGED <<sessions, call, fracVars, storeVars, files, dirs, clock, jobs>>

\* deleteMarkdownHandler.  A name that decodeURIComponent rejects makes the
\* handler throw before its first test: no response is sent (status 0) and
\* nothing is touched.  fs.access finds files and directories, fs.unlink
\* removes a file and fails on a directory.
deleteMarkdownHandler(s, raw) ==
    LET filename == decodeURIComponent(raw)
        filePath == pathJoin(SAVE_PATH, filename)
        Reply(status, body, core) ==
            Respond("DELETE /api/markdown/:filename", s, [filename |-> raw],
                    status, body, TRUE, core)
    IN  IF filename = URIError
        THEN /\ response' = Reply(0, [thrown |-> "URIError"], <<>>)
             /\ files' = files
        ELSE IF InvalidToDelete(filename)
        THEN /\ response' = Reply(400, InvalidFilename, <<>>)
             /\ files' = files
        ELSE IF ~IsFile(filePath) /\ filePath \notin dirs
        THEN /\ response' = Reply(404, [success |-> FALSE,
                                        error |-> "Markdown file not found"],
                                  <<Fs("access", filePath)>>)
             /\ files' = files
        ELSE IF filePath \in dirs
        THEN /\ response' = Reply(500, [success |-> FALSE,
                                        error |-> "Failed to delete markdown file"],
                                  <<Fs("access", filePath), Fs("unlink", filePath)>>)
             /\ files' = files
        ELSE /\ response' = Reply(200, [success |-> TRUE],
                                  <<Fs("access", filePath), Fs("unlink", filePath)>>)
             /\ files' = {f \in files : f.path # filePath}

\* app.delete('/api/markdown/:filename') and app.delete('/api/markdown/*')
DeleteMarkdown ==
    \E s \in SessionIds : \E raw \in SampleFilenames :
        /\ IF requireAuth(s) THEN deleteMarkdownHandler(s, raw)
           ELSE /\ response' = Denied("DELETE /api/markdown/:filename", s,
                                      [filename |-> raw],
                                      <<"/", "a", "p", "i", "/", "m", "a", "r", "k", "d", "o", "w", "n", "/">> \o raw)
                /\ files' = files
        /\ UNCHANGED <<sessions, call, fracVars, storeVars, dirs, clock, jobs>>

\* the handler of POST /api/import-markdown/:filename: the file read, its
\* text parsed and the recipe saved; a file that cannot be read is answered
\* 500 with the message of the error
ImportHandler(s, filename) ==
    LET filePath == pathJoin(SAVE_PATH, filename)
        Reply(status, body, core) ==
            Respond("POST /api/import-markdown/:filename", s,
                    [filename |-> filename], status, body, TRUE, core)
    IN  IF InvalidToDelete(filename)
        THEN /\ response' = Reply(400, InvalidFilename, <<>>)
             /\ UNCHANGED <<recipes, ingredients, instructions, nextId>>
        ELSE IF ~IsFile(filePath)
        THEN /\ response' = Reply(500, [success |-> FALSE, error |-> "ENOENT"],
                                  <<Fs("readFile", filePath)>>)
             /\ UNCHANGED <<recipes, ingredients, instructions, nextId>>
        ELSE /\ saveRecipe(ImportedRecipe(FileAt(filePath).content, filename))
             /\ response' = Reply(200, [success |-> TRUE, imported |-> 1,
                                        total |-> 1],
                                  <<Fs("readFile", filePath)>>)

\* app.post('/api/import-markdown/:filename')
ImportMarkdown ==
    \E s \in SessionIds : \E filename \in SampleFilenames :
        /\ nextId <= MaxSaves
        /\ IF requireAuth(s) THEN ImportHandler(s, filename)
           ELSE /\ response' = Denied("POST /api/import-markdown/:filename", s,
                                      [filename |-> filename],
                                      <<"/", "a", "p", "i", "/", "i", "m", "p", "o", "r", "t", "-", "m", "a", "r", "k", "d", "o", "w", "n", "/">> \o filename)
                /\ UNCHANGED <<recipes, ingredients, instructions, nextId>>
        /\ UNCHANGED <<sessions, result, call, fracVars, files, dirs, clock, jobs>>

NextFiles ==
    \/ PostLogin
    \/ GetLogout
    \/ GetRecipeFile
    \/ DeleteMarkdown
    \/ ImportMarkdown

SpecFiles == Init /\ [][NextFiles]_vars

---------------------------------------------------------------------------
(* SpecExtract: the two extraction routes, from the request over the        *)
(* extractor process to the callback of exec                                *)

\* the extraction requests in flight at a time, and the last value of the
\* clock
MaxJobs == 2
MaxClock == 1

\* API_TOKEN: the value of the environment variable, or 64 random hex digits
API_TOKEN == <<"0", "1", "2", "3", "a", "b", "c", "d">>

\* the values of the Authorization header of a request; UndefinedStr when
\* the request has none
SampleAuthorizations ==
    {UndefinedStr, <<"B", "e", "a", "r", "e", "r", " ", "0", "1", "2", "3", "a", "b", "c", "d">>, <<"B", "e", "a", "r", "e", "r", " ", "0", "1", "2", "3", "a", "b", "c", "f">>, <<"B", "a", "s", "i", "c", " ", "0", "1", "2", "3", "a", "b", "c", "d">>,
     <<"0", "1", "2", "3", "a", "b", "c", "d">>}

\* authHeader && authHeader.split(' ')[1]: the second of the parts between
\* single spaces; a header that is undefined or empty is its own value, a
\* header of one part gives undefined
TokenOf(authHeader) ==
    IF authHeader \in {UndefinedStr, <<>>} THEN authHeader
    ELSE IF Len(SplitChar(authHeader, " ")) < 2 THEN UndefinedStr
    ELSE SplitChar(authHeader, " ")[2]

\* !token || token !== API_TOKEN
TokenRefused(authHeader) ==
    \/ TokenOf(authHeader) \in {UndefinedStr, <<>>}
    \/ TokenOf(authHeader) # API_TOKEN

\* the values of url in the body of a request; UndefinedStr when the body
\* has none
SampleRequestUrls ==
    SampleUrls \cup {<<"h", "t", "t", "p", "s", ":", "/", "/", "n", "o", "n", "e">>, <<"n", "o", "p", "e">>, UndefinedStr}

\* what the extractor finds at an address: the recipe of the page, NullObject
\* when the page has none
PageAt(url) ==
    IF url = <<"h", "t", "t", "p", "s", ":", "/", "/", "a">>
    THEN CHOOSE r \in SampleExtracted : r.title = <<"C", "a", "k", "e">>
    ELSE IF url = <<"h", "t", "t", "p", ":", "/", "/", "b", "/", "c">>
    THEN CHOOSE r \in SampleExtracted : r.title = <<"S", "o", "u", "p">>
    ELSE NullObject

\* new URL(url) does not throw: the address starts with a scheme and ":",
\* and after http: or https: it names a host
ValidURL(url) ==
    LET scheme == RunLen(url, 1, Lower \cup Upper \cup Digit \cup {"+", "-", "."})
        rest == Drop(url, scheme + 1)
        host == Drop(rest, RunLen(rest, 1, {"/", "\\"}))
    IN  /\ scheme > 0 /\ url[1] \in Lower \cup Upper
        /\ scheme < Len(url) /\ url[scheme + 1] = ":"
        /\ toLowerCase(Take(url, scheme)) \in {<<"h", "t", "t", "p">>, <<"h", "t", "t", "p", "s">>} => host # <<>>

\* the addresses of the requests that pass new URL, and of them those with
\* a recipe on the page
ValidUrls == {url \in SampleRequestUrls \ {UndefinedStr} : ValidURL(url)}
RecipeUrls == {url \in ValidUrls : PageAt(url) # NullObject}

\* what the extractor writes for the page at an address: the name of the
\* file, and formatToObsidian(recipeData, url) as its text
ExtractorOutput ==
    [url \in RecipeUrls |->
        File(<<RecipeFileName(PageAt(url).title)>>,
             formatToObsidian(PageAt(url), url))]

\* the recipeData the callback of POST /extract reads from the text of a
\* file the extractor has written, for the url of the request
ReadBack ==
    [content \in {ExtractorOutput[url].content : url \in RecipeUrls} |->
        [url \in ValidUrls |-> ReadRecipe(content, url)]]

\* path.join(__dirname, 'temp', Date.now().toString())
TempDir(now) == TempRoot \o <<NatToString(now)>>

\* the path is that of an entry of the directory, or of an entry below it
IsUnder(path, dir) == Len(path) > Len(dir) /\ Take(path, Len(dir)) = dir

\* fs.readdir(dir): the names of the files of the directory
readdir(dir) ==
    {f.path[Len(f.path)] : f \in {g \in files : Take(g.path, Len(g.path) - 1) = dir}}

\* fs.writeFile and fs.copyFile: the file at the path written anew
Written(disk, path, content) ==
    {f \in disk : f.path # path} \cup {File(path, content)}

\* the sequence without its element j
Remove(seq, j) == Take(seq, j - 1) \o Drop(seq, j)

\* the session of a request that has none, or whose handler does not read it
NoSession == "none"

\* the part of the two handlers after the tests of the request: the
\* directory made (fs.mkdir with recursive: true accepts one that exists) and
\* the extractor process started; no response is sent yet (status 0)
StartJob(route, s, request) ==
    /\ Len(jobs) < MaxJobs
    /\ dirs' = dirs \cup {TempDir(clock)}
    /\ jobs' = Append(jobs, [route |-> route, session |-> s,
                             url |-> request.url, tempDir |-> TempDir(clock),
                             stage |-> "running", error |-> FALSE])
    /\ response' = Respond(route, s, request, 0, [pending |-> TRUE], TRUE, <<>>)

\* the /extract requests in flight: each saves a recipe in its callback
Saving == Cardinality({j \in DOMAIN jobs : jobs[j].route = "POST /extract"})

\* the handler of POST /extract, behind requireAuth, up to the call of exec
\* (useAdvanced is true); of a request the part its handler has read is
\* recorded
ExtractHandler(s, url) ==
    LET Reply(status, body) ==
            Respond("POST /extract", s, [url |-> url], status, body,
                    TRUE, <<>>)
    IN  IF ~requireAuth(s)
           THEN /\ response' = Denied("POST /extract", s, <<>>, <<"/", "e", "x", "t", "r", "a", "c", "t">>)
                /\ UNCHANGED <<dirs, jobs>>
           ELSE IF url \in {UndefinedStr, <<>>}
           THEN /\ response' = Reply(400, [success |-> FALSE,
                                           error |-> "URL is required"])
                /\ UNCHANGED <<dirs, jobs>>
           ELSE IF ~ValidURL(url)
           THEN /\ response' = Reply(400, [success |-> FALSE,
                                           error |-> "Invalid URL provided"])
                /\ UNCHANGED <<dirs, jobs>>
           ELSE /\ nextId + Saving <= MaxSaves
                /\ StartJob("POST /extract", s, [url |-> url])

\* app.post('/extract')
PostExtract ==
    \E s \in SessionIds : \E url \in SampleRequestUrls :
        /\ ExtractHandler(s, url)
        /\ UNCHANGED <<sessions, call, fracVars, storeVars, files, clock>>

\* the handler of POST /api/extract up to the call of exec (useAdvanced is
\* true, returnContent is true); the route is not behind requireAuth and its
\* handler does not read the session
ApiExtractHandler(authorization, url) ==
    LET Reply(status, body, request) ==
            Respond("POST /api/extract", NoSession, request, status, body,
                    TRUE, <<>>)
    IN  IF TokenRefused(authorization)
           THEN /\ response' = Reply(401, [success |-> FALSE,
                                           error |-> "Unauthorized"],
                                     [authorization |-> authorization])
                /\ UNCHANGED <<dirs, jobs>>
           ELSE IF url \in {UndefinedStr, <<>>}
           THEN /\ response' = Reply(400, [success |-> FALSE,
                                           error |-> "URL is required"],
                                     [authorization |-> authorization,
                                      url |-> url])
                /\ UNCHANGED <<dirs, jobs>>
           ELSE IF ~ValidURL(url)
           THEN /\ response' = Reply(400, [success |-> FALSE,
                                           error |-> "Invalid URL provided"],
                                     [authorization |-> authorization,
                                      url |-> url])
                /\ UNCHANGED <<dirs, jobs>>
           ELSE StartJob("POST /api/extract", NoSession,
                         [authorization |-> authorization, url |-> url])

\* app.post('/api/extract')
PostApiExtract ==
    \E authorization \in SampleAuthorizations : \E url \in SampleRequestUrls :
        /\ ApiExtractHandler(authorization, url)
        /\ UNCHANGED <<sessions, call, fracVars, storeVars, files, clock>>

\* Date.now() has moved on by a millisecond
Tick ==
    /\ clock < MaxClock
    /\ clock' = clock + 1
    /\ UNCHANGED <<sessions, response, call, fracVars, storeVars, files, dirs, jobs>>

\* the process started by exec: cd to the directory of the job, then the
\* extractor, which writes the recipe of the page to a file named after its
\* title in the current directory; the process fails when the directory is
\* gone or the page has no recipe
ExtractorExits ==
    \E j \in DOMAIN jobs :
        LET job == jobs[j]
            failed == job.tempDir \notin dirs \/ job.url \notin RecipeUrls
        IN  /\ job.stage = "running"
            /\ jobs' = [jobs EXCEPT ![j].stage = "exited", ![j].error = failed]
            /\ files' = IF failed THEN files
                        ELSE Written(files,
                                     job.tempDir \o ExtractorOutput[job.url].path,
                                     ExtractorOutput[job.url].content)
            /\ UNCHANGED <<sessions, response, call, fracVars, storeVars, dirs, clock>>

\* the callback of exec, of both routes: on an error of the process the
\* directory removed and 500 sent; else the first name of the directory that
\* ends with .md taken (the order of fs.readdir is that of the file system:
\* any of them), the file read and copied to SAVE_PATH, by POST /extract the
\* recipe read from it saved, the directory removed and the file reported.
\* The steps of the callback are taken at once.
ExecCallback ==
    \E j \in DOMAIN jobs :
        LET job == jobs[j]
            tempDir == job.tempDir
            cleaned == {f \in files : ~IsUnder(f.path, tempDir)}
            mdFiles == {name \in readdir(tempDir) : endsWith(name, <<".", "m", "d">>)}
            Reply(status, body) ==
                Respond(job.route, job.session, [url |-> job.url], status,
                        body, TRUE, <<>>)
        IN  /\ job.stage = "exited"
            /\ jobs' = Remove(jobs, j)
            /\ dirs' = dirs \ {tempDir}
            /\ IF job.error
               THEN /\ files' = cleaned
                    /\ response' = Reply(500, [success |-> FALSE,
                                               error |-> "Failed to extract recipe"])
                    /\ UNCHANGED <<recipes, ingredients, instructions, nextId>>
               ELSE IF tempDir \notin dirs \/ mdFiles = {}
               THEN /\ files' = cleaned
                    /\ response' = Reply(500, [success |-> FALSE,
                                               error |-> "Failed to process extracted recipe"])
                    /\ UNCHANGED <<recipes, ingredients, instructions, nextId>>
               ELSE \E mdFile \in mdFiles :
                      LET content == FileAt(tempDir \o <<mdFile>>).content
                          finalPath == pathJoin(SAVE_PATH, mdFile)
                      IN  /\ files' = Written(cleaned, finalPath, content)
                          /\ IF job.route = "POST /extract"
                             THEN saveRecipe(ReadBack[content][job.url])
                             ELSE UNCHANGED <<recipes, ingredients, instructions, nextId>>
                          /\ response' = Reply(200,
                                 [success |-> TRUE, filename |-> mdFile,
                                  title |-> ReadBack[content][job.url].title,
                                  content |-> content, savedTo |-> finalPath])
            /\ UNCHANGED <<sessions, result, call, fracVars, clock>>

\* a server that has run for a while: every session logged in or not, no
\* request in flight
InitExtract ==
    /\ call = NoCall /\ FracIdle /\ StoreEmpty
    /\ sessions \in [SessionIds -> BOOLEAN] /\ response = NoCall
    /\ files = InitialFiles /\ dirs = InitialDirs
    /\ clock = 0 /\ jobs = NoJobs

\* SpecApi: the requests to POST /api/extract, each with its extractor
\* process and its callback
NextApi ==
    \/ PostApiExtract
    \/ ExtractorExits
    \/ ExecCallback

SpecApi == InitExtract /\ [][NextApi]_vars

\* POST /api/extract with the token of the server in its header
PostApiExtractWithToken ==
    \E url \in SampleRequestUrls :
        /\ ApiExtractHandler(<<"B", "e", "a", "r", "e", "r", " ">> \o API_TOKEN, url)
        /\ UNCHANGED <<sessions, call, fracVars, storeVars, files, clock>>

\* one session is logged in, the other is not
InitOneLoggedIn ==
    /\ call = NoCall /\ FracIdle /\ StoreEmpty
    /\ sessions = [s \in SessionIds |-> s = "s1"] /\ response = NoCall
    /\ files = InitialFiles /\ dirs = InitialDirs
    /\ clock = 0 /\ jobs = NoJobs

\* SpecExtract: the requests to both extraction routes as the clock moves
\* on, with their extractor processes and callbacks in any order
NextExtract ==
    \/ PostExtract
    \/ PostApiExtractWithToken
    \/ Tick
    \/ ExtractorExits
    \/ ExecCallback

SpecExtract == InitOneLoggedIn /\ [][NextExtract]_vars

---------------------------------------------------------------------------
(* Claims about convertToMetric, parseIngredient and parseQuantity, under   *)
(* SpecCalls                                                                *)

OunceUnits ==
    {<<"o", "z">>, <<"o", "u", "n", "c", "e">>, <<"o", "u", "n", "c", "e", "s">>}
\* the name contains one of the liquid words, in any letter case
ContainsLiquidWord(name) ==
    \E w \in LiquidWords : includesStr(toLowerCase(name), w)

\* C1: for the units oz, ounce and ounces convertToMetric converts a quantity
\* at 30 ml per unit when the ingredient name contains a liquid word and at
\* 28 g per unit when it does not.
C1_OunceByLiquidWord ==
    (/\ call.op = "convertToMetric" /\ call.returned
     /\ toLowerCase(call.unit) \in OunceUnits
     /\ Truthy(call.quantity))
    => call.ret =
         IF ContainsLiquidWord(call.ingredient)
         THEN MetricResult(call.quantity, call.unit,
                           Mul(call.quantity, Whole(30)), <<"m", "l">>, <<"L">>)
         ELSE MetricResult(call.quantity, call.unit,
                           Mul(call.quantity, Whole(28)), <<"g">>, <<"k", "g">>)

\* a name of several words, each made of letters
IsMultiWordName(name) ==
    /\ \A i \in 1..Len(name) : name[i] \in Letter \cup Space
    /\ \E i \in 2..(Len(name) - 1) : name[i] \in Space
    /\ name[1] \in Letter /\ name[Len(name)] \in Letter
IsTableUnit(unit) ==
    LookUp(VolumeTable, unit).found \/ LookUp(WeightTable, unit).found

\* C2: a line made of a quantity, a unit word of the conversion tables and a
\* name of several words is split into exactly these three parts and is
\* converted; "1 1/2 cups chopped onion" becomes 360 ml of "chopped onion".
C2_SplitsQuantityUnitName ==
    (/\ call.op = "parseIngredient" /\ call.returned
     /\ call.parts # <<>>
     /\ Truthy(parseQuantity(call.parts[1]))
     /\ IsTableUnit(call.parts[2])
     /\ IsMultiWordName(call.parts[3]))
    => /\ call.ret.original_quantity = parseQuantity(call.parts[1])
       /\ call.ret.original_unit = call.parts[2]
       /\ call.ret.ingredient_name = call.parts[3]
       /\ call.ret.converted
       /\ (call.parts = << <<"1", " ", "1", "/", "2">>, <<"c", "u", "p", "s">>,
                           <<"c", "h", "o", "p", "p", "e", "d", " ", "o", "n", "i", "o", "n">> >>
             => call.ret.quantity = Whole(360) /\ call.ret.unit = <<"m", "l">>)

\* C8: parseQuantity returns null for a quantity run without a digit
\* (undefined, the empty string, white space, "-", ".", "/").
C8_NullWithoutNumericToken ==
    (/\ call.op = "parseQuantity" /\ call.returned
     /\ \/ call.quantityStr = UndefinedStr
        \/ \A i \in 1..Len(call.quantityStr) : call.quantityStr[i] \notin Digit)
    => call.ret = Null

\* C9: the original quantity parseIngredient returns is null exactly when
\* the line does not start with a number, and a null quantity is never
\* converted.
C9_NullQuantityIffNoLeadingNumber ==
    (call.op = "parseIngredient" /\ call.returned)
    => /\ IsNull(call.ret.original_quantity)
            <=> ~(call.ingredientLine # <<>> /\ call.ingredientLine[1] \in Digit)
       /\ IsNull(call.ret.original_quantity) => ~call.ret.converted

\* a token of a quantity run: an integer or a decimal ...
IsNumberToken(t) ==
    /\ t # <<>> /\ t[1] \in Digit /\ t[Len(t)] \in Digit
    /\ DecimalPrefix(t).len = Len(t)
\* ... or a fraction a/b with b # 0
IsFractionToken(t) ==
    \E i \in 2..(Len(t) - 1) :
        /\ t[i] = "/"
        /\ \A j \in 1..Len(t) : j # i => t[j] \in Digit
        /\ IntOf(Drop(t, i)) # 0
TokenValue(t) ==
    IF includes(t, "/")
    THEN LET i == RunLenNot(t, 1, {"/"}) + 1
         IN  Num(IntOf(Take(t, i - 1)), IntOf(Drop(t, i)))
    ELSE DecimalPrefix(t).val
RECURSIVE SumTokens(_)
SumTokens(tokens) ==
    IF tokens = <<>> THEN Whole(0)
    ELSE Add(TokenValue(Head(tokens)), SumTokens(Tail(tokens)))
\* tokens with one space or dash between them
IsTokenRun(s) ==
    /\ \A i \in 1..(Len(s) - 1) :
           ~(s[i] \in {" ", "-"} /\ s[i + 1] \in {" ", "-"})
    /\ \A t \in {SplitRuns(s, {" ", "-"})[k] :
                    k \in DOMAIN SplitRuns(s, {" ", "-"})} :
           IsNumberToken(t) \/ IsFractionToken(t)

\* C10: for a quantity run made of integer, decimal and fraction tokens with
\* spaces or dashes between them parseQuantity returns the sum of the tokens.
C10_SumOfTokens ==
    (/\ call.op = "parseQuantity" /\ call.returned
     /\ call.quantityStr # UndefinedStr
     /\ IsTokenRun(call.quantityStr))
    => call.ret = SumTokens(SplitRuns(call.quantityStr, {" ", "-"}))

\* v is x rounded to a multiple of 1/per: per * v is a whole number and v is
\* at most half a step away from x
IsRoundedTo(v, x, per) ==
    /\ IsInteger(Mul(v, Whole(per)))
    /\ Le(AbsNum(Sub(v, x)), <<1, 2 * per>>)

\* the call has returned a conversion of a finite quantity in a unit of table
\* that no table looked at before it holds
ConvertedWith(table, earlier) ==
    /\ call.op = "convertToMetric" /\ call.returned
    /\ Truthy(call.quantity) /\ IsFinite(call.quantity)
    /\ toLowerCase(call.unit) \in DOMAIN table
    /\ toLowerCase(call.unit) \notin earlier

\* the result is the amount in the large unit to 1 decimal place when the
\* amount is >= 1000, in the small unit as a whole number otherwise
IsMetricAmount(ret, amount, small, large) ==
    /\ ret.converted
    /\ IF Le(Whole(1000), amount)
       THEN /\ ret.unit = large
            /\ IsRoundedTo(ret.quantity, Div(amount, Whole(1000)), 10)
            /\ Le(Whole(1), ret.quantity)
       ELSE /\ ret.unit = small
            /\ IsRoundedTo(ret.quantity, amount, 1)
            /\ IsInteger(ret.quantity)

\* C11: for a unit of the volume table convertToMetric returns quantity *
\* ml-per-unit, in L to 1 decimal place when it is >= 1000 and in whole ml
\* otherwise; for a unit of the weight table (one the volume table does not
\* take first) quantity * g-per-unit, in kg or whole g in the same way.  So
\* ml and g results are whole numbers and L and kg results are >= 1.
C11_MetricAmountRounded ==
    /\ ConvertedWith(VolumeTable, {})
         => IsMetricAmount(call.ret,
                           Mul(call.quantity, Whole(VolumeTable[toLowerCase(call.unit)])),
                           <<"m", "l">>, <<"L">>)
    /\ ConvertedWith(WeightTable, DOMAIN VolumeTable)
         => IsMetricAmount(call.ret,
                           Mul(call.quantity, Whole(WeightTable[toLowerCase(call.unit)])),
                           <<"g">>, <<"k", "g">>)

\* C11 witness: 5 gallons have been converted to 18.9 L
C11_Witness ==
    /\ ConvertedWith(VolumeTable, {})
    /\ call.quantity = Whole(5) /\ call.unit = <<"g", "a", "l", "l", "o", "n">>
    /\ call.ret.quantity = <<189, 10>> /\ call.ret.unit = <<"L">>

\* C12: when the unit is in neither table, or the quantity or the unit is
\* missing or empty, convertToMetric returns {quantity, unit, converted: false}
\* with the quantity and the unit it was given and nothing else.
C12_NoOpWhenUnrecognised ==
    (/\ call.op = "convertToMetric" /\ call.returned
     /\ \/ toLowerCase(call.unit) \notin DOMAIN VolumeTable \cup DOMAIN WeightTable
        \/ ~Truthy(call.quantity)
        \/ call.unit = <<>>)
    => call.ret = [quantity |-> call.quantity, unit |-> call.unit,
                   converted |-> FALSE]

\* a quantity as the fraction formatter writes it, or as the number itself
\* when no fraction applies
QuantityText(q) ==
    IF decimalToFraction(q) # NullStr THEN decimalToFraction(q) ELSE NumToString(q)

\* C13: the display_text of a converted line is "<metric quantity> <metric
\* unit> <ingredient name> (<original quantity> <original unit>)", each
\* quantity written as a fraction or else as the number itself, never as an
\* empty string.
C13_ConvertedDisplayText ==
    (call.op = "parseIngredient" /\ call.returned /\ call.ret.converted)
    => call.ret.display_text =
          QuantityText(call.ret.quantity) \o <<" ">> \o call.ret.unit
            \o <<" ">> \o call.ret.ingredient_name \o <<" ", "(">>
            \o QuantityText(call.ret.original_quantity) \o <<" ">>
            \o call.ret.original_unit \o <<")">>

\* C14: whenever parseIngredient returns converted = false, display_text and
\* original_text are the input line, character for character; for "salt to
\* taste" the quantity is null and display_text is "salt to taste".
C14_UnconvertedDisplayTextIsLine ==
    (call.op = "parseIngredient" /\ call.returned)
    => /\ ~call.ret.converted
            => /\ call.ret.display_text = call.ingredientLine
               /\ call.ret.original_text = call.ingredientLine
       /\ call.ingredientLine = <<"s", "a", "l", "t", " ", "t", "o", " ", "t", "a", "s", "t", "e">>
            => /\ IsNull(call.ret.quantity)
               /\ call.ret.display_text = <<"s", "a", "l", "t", " ", "t", "o", " ", "t", "a", "s", "t", "e">>

\* C14 witness: "salt to taste" has been parsed, and it is not converted
C14_Witness ==
    /\ call.op = "parseIngredient" /\ call.returned
    /\ call.ingredientLine = <<"s", "a", "l", "t", " ", "t", "o", " ", "t", "a", "s", "t", "e">>
    /\ ~call.ret.converted /\ IsNull(call.ret.quantity)

\* the letters a line starts with
FirstWord(line) == Take(line, RunLen(line, 1, Letter))

\* C15: for a line that starts neither with a quantity nor with a unit of the
\* conversion tables, such as "salt to taste", ingredient_name is the whole
\* line, as display_text is.
C15_NameFallsBackToLine ==
    (/\ call.op = "parseIngredient" /\ call.returned
     /\ call.ingredientLine # <<>>
     /\ call.ingredientLine[1] \notin QuantityChar
     /\ ~IsTableUnit(toLowerCase(FirstWord(call.ingredientLine))))
    => /\ call.ret.ingredient_name = call.ingredientLine
       /\ call.ret.display_text = call.ingredientLine

\* C18: for a positive quantity and a unit of the tables, the metric quantity
\* written by formatQuantityForDisplay and read back by parseQuantity is a
\* number that differs from the metric quantity by less than the rounding
\* step: 1/10 for L and kg, 1 for ml and g.
C18_DisplayedQuantityReadsBack ==
    (/\ call.op = "convertToMetric" /\ call.returned
     /\ IsFinite(call.quantity) /\ call.quantity[1] > 0
     /\ toLowerCase(call.unit) \in DOMAIN VolumeTable \cup DOMAIN WeightTable)
    => LET back == parseQuantity(formatQuantityForDisplay(call.ret.quantity))
           step == IF call.ret.unit \in {<<"L">>, <<"k", "g">>}
                   THEN <<1, 10>> ELSE Whole(1)
       IN  /\ call.ret.converted
           /\ IsFinite(back)
           /\ Lt(AbsNum(Sub(back, call.ret.quantity)), step)

\* C29: what the server reads from a file formatToObsidian wrote is what was
\* written: the title (or "Untitled Recipe" for none), cuisine, course,
\* servings, prep_time and cook_time, an empty one read back as empty, the
\* ingredient lines and the instructions.
C29_MarkdownRoundTrip ==
    (call.op \in {"ReadRecipe", "ImportedRecipe"})
    => /\ call.ret.title = StrOr(call.recipeData.title,
                                 <<"U", "n", "t", "i", "t", "l", "e", "d", " ",
                                   "R", "e", "c", "i", "p", "e">>)
       /\ call.ret.cuisine = call.recipeData.cuisine
       /\ call.ret.course = call.recipeData.course
       /\ call.ret.servings = call.recipeData.servings
       /\ call.ret.prepTime = call.recipeData.prepTime
       /\ call.ret.cookTime = call.recipeData.cookTime
       /\ call.ret.ingredients = call.recipeData.ingredients
       /\ call.ret.instructions = call.recipeData.instructions

---------------------------------------------------------------------------
(* Claims about scaleIngredients and scaleIngredientsToServings, under Spec *)

\* C3: scaleIngredientsToServings returns null when the servings text of the
\* recipe has no digit and when desiredServings is absent, zero or negative.
C3_NullWithoutServingsOrNonPositive ==
    (/\ result.op = "scaleIngredientsToServings"
     /\ \E r \in recipes : r.id = result.recipeId)
    => LET recipe == CHOOSE r \in recipes : r.id = result.recipeId
           noDigit == \/ recipe.servings = NullStr
                      \/ \A i \in 1..Len(recipe.servings) :
                             recipe.servings[i] \notin Digit
           notPositive == \/ ~IsNumber(result.desiredServings)
                          \/ IsNaN(result.desiredServings)
                          \/ Le(result.desiredServings, Whole(0))
       IN  (noDigit \/ notPositive) => result.ret = NullObject

\* the texts are the same after the quantity each of them starts with
SameUpToQuantity(a, b) ==
    Drop(a, RunLen(a, 1, QuantityChar)) = Drop(b, RunLen(b, 1, QuantityChar))

\* C4: with factor 1 the scaled_text of every ingredient scaleIngredients
\* rescales is the ingredient's display_text, up to the way the quantity is
\* written.
C4_FactorOneReproducesDisplayText ==
    (result.op = "scaleIngredients" /\ result.scaleFactor = Whole(1))
    => \A k \in DOMAIN result.ret :
           "scaled_text" \in DOMAIN result.ret[k]
               => SameUpToQuantity(result.ret[k].scaled_text,
                                   result.ret[k].display_text)

\* C5: scaleIngredients gives every ingredient with a stored quantity that
\* is not null (0 included) the scaled quantity quantity * f, and returns
\* every ingredient with a null quantity as it is stored.
C5_RescalesEveryNonNullQuantity ==
    result.op = "scaleIngredients"
    => \A k \in DOMAIN result.ret :
           LET stored == IngredientsOf(result.recipeId)[k]
               ing == result.ret[k]
           IN  IF IsNull(stored.quantity)
               THEN ing = stored
               ELSE /\ "scaled_quantity" \in DOMAIN ing
                    /\ ing.scaled_quantity = Mul(stored.quantity, result.scaleFactor)

\* the value of the first numeric token of a text that holds a digit: the
\* longest integer or decimal that starts at the first digit
FirstNumericToken(text) ==
    LET i == CHOOSE k \in 1..Len(text) :
                 text[k] \in Digit /\ \A h \in 1..(k - 1) : text[h] \notin Digit
        j == CHOOSE k \in i..Len(text) :
                 /\ IsNumberToken(SubSeq(text, i, k))
                 /\ \A h \in (k + 1)..Len(text) : ~IsNumberToken(SubSeq(text, i, h))
    IN  DecimalPrefix(SubSeq(text, i, j)).val

\* the last call was scaleIngredientsToServings for a stored recipe whose
\* servings text holds a digit, with a positive number of servings
ScaledToServings ==
    /\ result.op = "scaleIngredientsToServings"
    /\ \E r \in recipes :
           /\ r.id = result.recipeId
           /\ r.servings # NullStr
           /\ \E i \in 1..Len(r.servings) : r.servings[i] \in Digit
    /\ IsFinite(result.desiredServings) /\ result.desiredServings[1] > 0

\* C16: for a servings text with a number n and a valid desiredServings the
\* result has scaleFactor = desiredServings / n, originalServings = n, the
\* desiredServings, and every rescaled ingredient has its quantity times that
\* factor; the division is made only for n # 0 (for n = 0 the result is
\* null).  "8 servings" and 4 give 1/2, and a quantity of 2 becomes 1, "1".
C16_FactorIsDesiredOverOriginal ==
    ScaledToServings
    => LET recipe == CHOOSE r \in recipes : r.id = result.recipeId
           n == FirstNumericToken(recipe.servings)
           factor == Div(result.desiredServings, n)
       IN  IF n = Whole(0) THEN result.ret = NullObject
           ELSE /\ result.ret # NullObject
                /\ result.ret.scaleFactor = factor
                /\ result.ret.originalServings = n
                /\ result.ret.desiredServings = result.desiredServings
                /\ DOMAIN result.ret.ingredients = DOMAIN IngredientsOf(result.recipeId)
                /\ \A k \in DOMAIN result.ret.ingredients :
                       LET ing == result.ret.ingredients[k]
                       IN  "scaled_quantity" \in DOMAIN ing
                             => /\ ing.scaled_quantity = Mul(ing.quantity, factor)
                                /\ (recipe.servings = <<"8", " ", "s", "e", "r", "v", "i", "n", "g", "s">>
                                      /\ result.desiredServings = Whole(4)
                                      /\ ing.quantity = Whole(2))
                                     => /\ result.ret.scaleFactor = <<1, 2>>
                                        /\ ing.scaled_quantity = Whole(1)
                                        /\ ing.display_quantity = <<"1">>

\* C16 witness: the recipe of "8 servings" has been scaled to 4 servings and
\* its 2 eggs have become 1
C16_Witness ==
    /\ ScaledToServings
    /\ result.desiredServings = Whole(4)
    /\ result.ret # NullObject
    /\ result.ret.scaleFactor = <<1, 2>>
    /\ \E k \in DOMAIN result.ret.ingredients :
           /\ result.ret.ingredients[k].quantity = Whole(2)
           /\ "scaled_quantity" \in DOMAIN result.ret.ingredients[k]
           /\ result.ret.ingredients[k].display_quantity = <<"1">>

\* C17: the display_quantity of a rescaled ingredient is the integer when the
\* scaled quantity is one, else the fraction of decimalToFraction when there
\* is one, else the quantity with 2 decimal places; scaled_text is the
\* display_quantity, the unit and the ingredient name with one space between
\* them and no other white space added, also when the unit is empty.
C17_ScaledTextFormat ==
    result.op = "scaleIngredients"
    => \A k \in DOMAIN result.ret :
           LET ing == result.ret[k]
           IN  "scaled_text" \in DOMAIN ing
                 => /\ ing.display_quantity =
                          IF IsInteger(ing.scaled_quantity)
                          THEN NumToString(ing.scaled_quantity)
                          ELSE IF decimalToFraction(ing.scaled_quantity) # NullStr
                          THEN decimalToFraction(ing.scaled_quantity)
                          ELSE toFixed2(ing.scaled_quantity)
                    /\ ing.scaled_text =
                          JoinWords(ing.display_quantity,
                                    JoinWords(ing.unit, ing.ingredient_name))

\* the argument of the saveRecipe call that wrote the row r of recipes (the
\* sample recipes differ in what this row keeps of them)
SavedData(r) ==
    CHOOSE d \in SampleRecipes :
        /\ d.title = r.title
        /\ OrNull(d.servings) = r.servings
        /\ OrNull(d.sourceUrl) = r.source_url

\* rows is the list lines in its order: row k is made from line k
InInputOrder(rows, lines) ==
    /\ DOMAIN rows = DOMAIN lines
    /\ \A k \in DOMAIN lines :
           /\ rows[k].original_text = lines[k]
           /\ rows[k].sort_order = k - 1
           /\ rows[k].ingredient_name = parseIngredient(lines[k]).ingredient_name
           /\ rows[k].display_text = parseIngredient(lines[k]).display_text

\* C19: after saveRecipe the table holds for line i of the list (counted from
\* 0) a row with sort_order i made from that line alone; getRecipe and
\* scaleIngredients return the rows of a stored recipe in the order of the
\* list.
C19_IngredientsInInputOrder ==
    /\ result.op = "saveRecipe"
         => \E r \in recipes :
              /\ r.id = result.ret
              /\ \A k \in DOMAIN SavedData(r).ingredients :
                   \E row \in ingredients :
                     /\ row.recipe_id = r.id /\ row.sort_order = k - 1
                     /\ row.original_text = SavedData(r).ingredients[k]
                     /\ row.display_text =
                          parseIngredient(SavedData(r).ingredients[k]).display_text
    /\ (result.op = "getRecipe" /\ result.ret # NullObject)
         => InInputOrder(result.ret.ingredients, SavedData(result.ret).ingredients)
    /\ result.op = "scaleIngredients"
         => \A r \in recipes :
              r.id = result.recipeId
                => InInputOrder(result.ret, SavedData(r).ingredients)

\* C19 witness: getRecipe has returned a recipe of three ingredients, "2 eggs"
\* the second of them
C19_Witness ==
    /\ result.op = "getRecipe" /\ result.ret # NullObject
    /\ Len(result.ret.ingredients) = 3
    /\ result.ret.ingredients[2].original_text = <<"2", " ", "e", "g", "g", "s">>
    /\ result.ret.ingredients[2].sort_order = 1

\* the columns saveRecipe writes for an ingredient
IngredientColumns ==
    {"recipe_id", "original_text", "ingredient_name", "quantity", "unit",
     "original_quantity", "original_unit", "converted", "display_text",
     "sort_order"}

\* C20: after saveRecipe the table holds exactly one row for every line of
\* the list, a line without a quantity, an empty line or a line whose
\* quantity is not a number included, each with all its columns: no line
\* keeps the lines after it from being parsed and stored.
C20_OneRowForEveryLine ==
    result.op = "saveRecipe"
    => \E r \in recipes :
         /\ r.id = result.ret
         /\ LET lines == SavedData(r).ingredients
                rows == {i \in ingredients : i.recipe_id = r.id}
            IN  /\ Cardinality(rows) = Len(lines)
                /\ \A k \in DOMAIN lines :
                       Cardinality({i \in rows :
                                      /\ i.sort_order = k - 1
                                      /\ i.original_text = lines[k]
                                      /\ DOMAIN i = IngredientColumns}) = 1

\* C20 witness: a list that starts with an empty line and a line whose
\* quantity is not a number has been saved, and its third line is stored
C20_Witness ==
    /\ result.op = "saveRecipe"
    /\ \E i \in ingredients :
           /\ i.recipe_id = result.ret /\ i.sort_order = 0 /\ i.original_text = <<>>
    /\ \E i \in ingredients :
           /\ i.recipe_id = result.ret /\ i.sort_order = 2
           /\ i.original_text = <<"1", "/", "3", " ", "c", "u", "p", " ", "m", "i", "l", "k">>

\* C21: scaled ingredients are never persisted.  A call of scaleIngredients or
\* scaleIngredientsToServings leaves the rows of recipes, ingredients and
\* instructions as they were, so getRecipe returns for every id what it
\* returned before the call, and every scale call returns after it what the
\* same call would have returned before it.
IsScaleCall(r) == r.op \in {"scaleIngredients", "scaleIngredientsToServings"}

\* the call recorded in r, made once more
ScaledAgain(r) ==
    IF r.op = "scaleIngredients" THEN scaleIngredients(r.recipeId, r.scaleFactor)
    ELSE scaleIngredientsToServings(r.recipeId, r.desiredServings)

C21_ScalingLeavesStoreUnchanged ==
    /\ [][IsScaleCall(result') =>
            /\ recipes' = recipes /\ ingredients' = ingredients
            /\ instructions' = instructions
            /\ \A id \in RecipeIds : getRecipe(id)' = getRecipe(id)]_vars
    /\ [](IsScaleCall(result) => ScaledAgain(result) = result.ret)

\* C21 witness: a scale call with a factor other than 1 has returned rescaled
\* rows for a stored recipe, and getRecipe still has the stored quantities
C21_Witness ==
    /\ IsScaleCall(result) /\ result.ret # NullObject
    /\ \E k \in DOMAIN (IF result.op = "scaleIngredients" THEN result.ret
                          ELSE result.ret.ingredients) :
         LET row == (IF result.op = "scaleIngredients" THEN result.ret
                     ELSE result.ret.ingredients)[k]
         IN  /\ "scaled_quantity" \in DOMAIN row
             /\ row.scaled_quantity # row.quantity
             /\ getRecipe(result.recipeId).ingredients[k].quantity = row.quantity


\* C30: after any sequence of saveRecipe and deleteRecipe calls no two stored
\* recipes have the same source_url unless it is NULL; every ingredient and
\* instruction row belongs to a stored recipe; and the ingredients and
\* instructions of a stored recipe are exactly the rows of the save that
\* wrote it, one for each line, in the order of the lines.
InstructionsAsSaved(rows, lines) ==
    /\ DOMAIN rows = DOMAIN lines
    /\ \A k \in DOMAIN lines :
           /\ rows[k].step_number = k
           /\ rows[k].instruction = StripStepNumber(lines[k])

C30_SourceUrlUniqueAndRowsOfLatestSave ==
    /\ \A r1, r2 \in recipes :
           (r1.id = r2.id => r1 = r2)
           /\ (r1 # r2 /\ r1.source_url # NullStr => r1.source_url # r2.source_url)
    /\ \A i \in ingredients \cup instructions :
           \E r \in recipes : r.id = i.recipe_id
    /\ \A r \in recipes :
           /\ Cardinality({i \in ingredients : i.recipe_id = r.id})
                = Len(SavedData(r).ingredients)
           /\ Cardinality({i \in instructions : i.recipe_id = r.id})
                = Len(SavedData(r).instructions)
           /\ InInputOrder(getRecipe(r.id).ingredients, SavedData(r).ingredients)
           /\ InstructionsAsSaved(getRecipe(r.id).instructions,
                                  SavedData(r).instructions)

\* C30 witness: the second save had the source_url of the first, which had
\* more ingredients and instructions; a recipe without source_url aside, only
\* the second is stored
C30_Witness ==
    /\ result.op = "saveRecipe" /\ result.ret = 2
    /\ \A r \in recipes : r.id = 2
    /\ \E r \in recipes :
           /\ r.source_url = <<"h", "t", "t", "p", "s", ":", "/", "/", "a">>
           /\ Len(getRecipe(r.id).instructions) = 0


---------------------------------------------------------------------------
(* Claims about the routes of the server, under SpecServer *)

ScaleRoute == "GET /api/recipe/:id/scale/:factor"
ScaleToServingsRoute == "GET /api/recipe/:id/scale-to-servings/:servings"

\* x is a number greater than 0
IsPositive(x) == ~IsNaN(x) /\ Lt(Whole(0), x)

C23_NullIsAnsweredUnableToScale ==
    (/\ response.op = ScaleToServingsRoute
     /\ response.core # <<>>
     /\ response.core[1].ret = NullObject)
    => /\ response.status = 400
       /\ response.body = [success |-> FALSE,
                           error |-> "Unable to scale recipe - servings not found"]

\* C23 witness: the route was asked to scale a stored recipe that has no
\* servings text, and answered 400
C23_Witness ==
    /\ response.op = ScaleToServingsRoute /\ response.status = 400
    /\ response.core # <<>> /\ response.core[1].ret = NullObject
    /\ \E r \in recipes :
         /\ r.id = RowId(parseInt(response.request.id))
         /\ r.servings = NullStr

\* the routes behind requireAuth, and those of them with a path under /api/
GuardedRoutes ==
    {"GET /", "POST /api/recipes", "GET /api/recipe/:id", "PUT /api/recipe/:id",
     ScaleRoute, ScaleToServingsRoute}
ApiRoutes == GuardedRoutes \ {"GET /"}

\* C24: the handler of a guarded route runs only for a session whose flag is
\* set; the flag of a session is set only by a POST /login of that session
\* with the configured password, a POST /login with another password leaves
\* every flag as it was, and GET /logout leaves the session without the flag;
\* a request to a guarded route that is not let through is answered 401 with
\* JSON under /api/ and with a redirect to /login elsewhere.
C24_GuardedRoutesNeedLogin ==
    /\ []((response.op \in GuardedRoutes /\ response.handled)
             => sessions[response.session])
    /\ []((response.op \in GuardedRoutes /\ ~response.handled)
             => IF response.op \in ApiRoutes
                THEN /\ response.status = 401
                     /\ response.body = [success |-> FALSE, error |-> "Unauthorized"]
                ELSE /\ response.status = 302
                     /\ response.body = [location |-> "/login"])
    /\ [][\A s \in SessionIds :
            (sessions'[s] /\ ~sessions[s])
              => /\ response'.op = "POST /login" /\ response'.session = s
                 /\ response'.request.password = PASSWORD]_vars
    /\ [][(response'.op = "POST /login" /\ response'.request.password # PASSWORD)
            => sessions' = sessions]_vars
    /\ [][response'.op = "GET /logout" => ~sessions'[response'.session]]_vars

\* C24 witness: a guarded handler has run for session s1 while session s2 is
\* not logged in
C24_Witness ==
    /\ response.op = "GET /api/recipe/:id" /\ response.handled
    /\ response.session = "s1" /\ sessions["s1"] /\ ~sessions["s2"]

\* C26: after PUT /api/recipe/:id has answered success for a stored recipe,
\* the recipe has the title, servings, source_url, ingredients and
\* instructions of the body, for each of them the body has.
C26_PutStoresTheBody ==
    (/\ response.op = "PUT /api/recipe/:id" /\ response.handled
     /\ response.status = 200 /\ response.body.success
     /\ getRecipe(RowId(parseInt(response.request.id))) # NullObject)
    => LET body == response.request.body
           recipe == getRecipe(RowId(parseInt(response.request.id)))
       IN  /\ body.title # UndefinedStr => recipe.title = body.title
           /\ body.servings # UndefinedStr => recipe.servings = body.servings
           /\ body.source_url # UndefinedStr => recipe.source_url = body.source_url
           /\ body.ingredients.given
                => [k \in DOMAIN recipe.ingredients |->
                      recipe.ingredients[k].original_text]
                     = DisplayIngredients(body.ingredients.list)
           /\ body.instructions.given
                => [k \in DOMAIN recipe.instructions |->
                      recipe.instructions[k].instruction]
                     = InstructionTexts(body.instructions.list)

---------------------------------------------------------------------------
(* Claims about decimalToFraction, under SpecFrac *)

\* |q - v| <= q * 1e-6
WithinTolerance(q, v) == ~GtTolerance(AbsNum(Sub(q, v)), q)

\* "w r/k", or "r/k" when w = 0
FractionText(w, r, k) ==
    (IF w > 0 THEN NatToString(w) \o <<" ">> ELSE <<>>)
      \o NatToString(r) \o <<"/">> \o NatToString(k)

\* the call has returned and its argument was a positive number
ReturnedPositive == fpc = "done" /\ IsFinite(decimal) /\ decimal[1] > 0

\* fres is a string "w r/k" (w >= 1) or "r/k", 0 < r < k <= 8, whose value is
\* within the tolerance of decimal
IsCloseFraction ==
    LET fl == Floor(decimal)[1]
    IN  \E w \in {x \in {fl - 1, fl, fl + 1} : x >= 0} :
        \E k \in 2..MaxDenominator : \E r \in 1..(k - 1) :
            /\ fres = FractionText(w, r, k)
            /\ WithinTolerance(decimal, Num(w * k + r, k))

\* some p/k with k in K is within the tolerance of q
ApproximableBy(q, K) ==
    \E k \in K :
       \E p \in {Floor(Mul(q, Whole(k)))[1], Floor(Mul(q, Whole(k)))[1] + 1} :
          WithinTolerance(q, Num(p, k))

\* below this value every fraction with a denominator <= 8 that is within the
\* tolerance of q is a convergent of q's continued fraction (Legendre:
\* |q - p/k| < 1/(2k^2))
ConvergentLimit == ToleranceInv \div (2 * MaxDenominator * MaxDenominator)

\* C6 as stated: for a positive q the result is null or a fraction string
\* within the tolerance of q, and it is null exactly when q is a whole number
\* or no fraction with a denominator <= 8 is within the tolerance of q.
C6_NullExactlyWhenWholeOrNoFraction ==
    ReturnedPositive =>
        /\ fres = NullStr \/ IsCloseFraction
        /\ fres = NullStr <=>
              (IsInteger(decimal) \/ ~ApproximableBy(decimal, 1..MaxDenominator))

\* C6 as amended: for a positive q the result is null or a fraction string
\* within the tolerance of q; it is null whenever q is within the tolerance of
\* a whole number (q itself whole or not) and whenever no fraction with a
\* denominator <= 8 is within the tolerance of q; and for q < 7812 these are
\* the only cases in which it is null.
C6_NullExactlyWhenNearWholeOrNoFraction ==
    ReturnedPositive =>
        /\ fres = NullStr \/ IsCloseFraction
        /\ Lt(decimal, Whole(ConvergentLimit)) =>
              (fres = NullStr <=>
                  (ApproximableBy(decimal, {1})
                     \/ ~ApproximableBy(decimal, 1..MaxDenominator)))

\* C6 witness: 19/8 has been formatted as "2 3/8"
C6_Witness ==
    fpc = "done" /\ decimal = <<19, 8>> /\ fres = <<"2", " ", "3", "/", "8">>

\* C7: decimalToFraction returns for every numeric argument, and a division
\* by zero in the loop (b infinite, then NaN) does not keep it running: the
\* iteration that starts with such a b is the last one.
C7_LoopTerminates ==
    /\ <>(fpc = "done")
    /\ [][(fpc = "loop" /\ ~IsFinite(frac.b)) => fpc' # "loop"]_vars

\* C7 witness: a negative argument's call has returned after a division by zero
C7_Witness ==
    fpc = "done" /\ IsFinite(decimal) /\ decimal[1] < 0 /\ IsNaN(frac.b)

---------------------------------------------------------------------------
(* Claims about the routes that take the name of a file, under SpecFiles    *)

ReadRoute == "GET /recipe/:filename"
DeleteRoute == "DELETE /api/markdown/:filename"
ImportRoute == "POST /api/import-markdown/:filename"
FileRoutes == {ReadRoute, DeleteRoute, ImportRoute}

\* the name the handler of request r tests: the parameter of the path, once
\* more decoded by the handler of the delete route
TestedName(r) ==
    IF r.op = DeleteRoute THEN decodeURIComponent(r.request.filename)
    ELSE r.request.filename

\* the name ends with ".md" and has no "..", no "/" and, for the delete and
\* the import route, no "\" in it
SafeName(op, name) ==
    /\ endsWith(name, <<".", "m", "d">>)
    /\ ~includesStr(name, <<".", ".">>)
    /\ ~includes(name, "/")
    /\ op \in {DeleteRoute, ImportRoute} => ~includes(name, "\\")

\* the path names an entry of the directory SAVE_PATH itself
DirectChild(path) ==
    /\ Len(path) = Len(SAVE_PATH) + 1
    /\ Take(path, Len(SAVE_PATH)) = SAVE_PATH
    /\ path[Len(path)] \notin {<<>>, <<".">>, <<".", ".">>}

---------------------------------------------------------------------------
(* Claims about POST /api/extract, under SpecApi                            *)

ApiExtractRoute == "POST /api/extract"

\* the last request was one to POST /api/extract, at the time its handler
\* read the Authorization header
ApiRequest(r) ==
    r.op = ApiExtractRoute /\ "authorization" \in DOMAIN r.request

\* C25: a request to POST /api/extract starts an extraction only when its
\* Authorization header is "Bearer " followed by the API token, whatever the
\* sessions are; a request with any other header is answered 401
\* "Unauthorized", and a request answered 401 leaves the directories, the
\* files and the extractor processes as they were.
C25_OnlyBearerTokenExtracts ==
    /\ [][Len(jobs') > Len(jobs)
            => /\ ApiRequest(response')
               /\ response'.request.authorization = <<"B", "e", "a", "r", "e", "r", " ">> \o API_TOKEN]_vars
    /\ []((/\ ApiRequest(response)
           /\ response.request.authorization # <<"B", "e", "a", "r", "e", "r", " ">> \o API_TOKEN)
            => /\ response.status = 401
               /\ response.body = [success |-> FALSE, error |-> "Unauthorized"])
    /\ [][(response' # response /\ ApiRequest(response')
             /\ response'.status = 401)
            => UNCHANGED <<files, dirs, jobs, recipes, ingredients,
                           instructions, nextId>>]_vars

---------------------------------------------------------------------------
(* Claims about the extraction requests in flight, under SpecExtract        *)

\* the last response reports an extraction that succeeded
ReportsRecipe(r) ==
    r.op \in {"POST /extract", ApiExtractRoute} /\ r.status = 200

\* the files below a directory
FilesUnder(disk, dir) == {f \in disk : IsUnder(f.path, dir)}

\* C28: no two requests in flight have the same temporary directory; a
\* request that succeeds reports the file its own extractor wrote, that is
\* the recipe of the page at its url; and the callback of a request leaves
\* the directory of every other request in flight, and the files in it, as
\* they were.
C28_RequestsInFlightKeepApart ==
    /\ [](\A i, j \in DOMAIN jobs :
             i # j => jobs[i].tempDir # jobs[j].tempDir)
    /\ [](ReportsRecipe(response)
            => /\ response.request.url \in RecipeUrls
               /\ response.body.filename
                    = ExtractorOutput[response.request.url].path[1]
               /\ response.body.content
                    = ExtractorOutput[response.request.url].content)
    /\ [][Len(jobs') < Len(jobs)
            => \A k \in DOMAIN jobs' :
                  /\ jobs'[k].tempDir \in dirs => jobs'[k].tempDir \in dirs'
                  /\ FilesUnder(files', jobs'[k].tempDir)
                       = FilesUnder(files, jobs'[k].tempDir)]_vars

=============================================================================
